---- MODULE Spec2Model ----
(***************************************************************************)
(* nvim-power-mode: the combo tracker (ComboTracker + ComboMeter), the     *)
(* leveling service (XPService) and the edit tracker (RidiculousTracker),  *)
(* modelled as state machines.                                             *)
(*                                                                         *)
(* Time is counted in ticks of one second for the combo engine: the decay  *)
(* timer is armed with COMBO_TIMEOUT ticks and may fire once no tick is    *)
(* left.  Timers are kept as sets of pending entries, so that a timer that *)
(* was re-armed without being cleared would stay pending.                  *)
(* The pitch reset timer of the edit tracker counts milliseconds, which    *)
(* pass in steps of TickMs.                                                *)
(* The leveling state is written to the globalState memento; the storage   *)
(* behind it receives each update as a write that completes or fails       *)
(* later, and is what a restarted extension host loads.                    *)
(* The sound player (NativeSoundPlayer) is modelled by the sound file it   *)
(* chooses for a sound name and a pitch, pitches being in hundredths.      *)
(* A toggle command asks for an update of the configuration, which is      *)
(* applied later, in the order asked for; the handler of configuration     *)
(* changes runs when an update changes the value of its key.  The panel    *)
(* provider answers the messages of the webview from globalState.          *)
(* The call that fetches the Neovim client is a process of its own, with   *)
(* the outcome of every attempt chosen by the host.                        *)
(***************************************************************************)
EXTENDS Integers, Sequences, FiniteSets, TLC

VARIABLES
    \* ---- ComboTracker fields
    currentCombo,          \* this.currentCombo
    comboTimeoutHandle,    \* this.comboTimeoutHandle is non-null
    isPowermodeActive,     \* this.isPowermodeActive
    decayTimers,           \* event loop: pending setTimeout entries of the tracker
    disposed,              \* dispose() has run
    \* ---- ComboMeter object (fields and its pending timers)
    comboMeter,
    \* ---- observer of the combo engine (notifications, elapsed time)
    obs,
    \* ---- the call getExistingNeovimClient() made at activation
    connecting,
    \* ---- XPService fields, the extension's globalState, and an observer
    baseXp,
    xp,
    level,
    xpNextAbs,
    globalState,
    xpObs,
    \* ---- the storage behind globalState, and the writes on their way to it
    storage,               \* what a new extension host loads into globalState
    writes,                \* per key, the state and value of the last globalState.update
    \* ---- RidiculousTracker fields
    settings,              \* this.settings, the snapshot of the configuration
    pitchIncrease,         \* this.pitchIncrease
    pitchResetTimer,       \* this.pitchResetTimer is defined
    pitchTimers,           \* event loop: pending setTimeout entries of the pitch reset
    lastLineByEditor,      \* this.lastLineByEditor
    revealedForSound,      \* this.revealedForSound
    status,                \* this.status, the status bar item
    trackerDisposed,       \* dispose() of the tracker has run
    \* ---- the updates of the configuration asked for and not yet applied
    configUpdates,
    \* ---- what the last handler of the tracker sent out, and an observer
    out,
    tobs

comboVars == <<currentCombo, comboTimeoutHandle, isPowermodeActive, decayTimers,
               disposed, comboMeter, obs, connecting>>
xpVars == <<baseXp, xp, level, xpNextAbs, globalState, xpObs, storage, writes>>
trackerVars == <<settings, pitchIncrease, pitchResetTimer, pitchTimers, lastLineByEditor,
                 revealedForSound, status, trackerDisposed, configUpdates,
                 out, tobs>>
vars == <<currentCombo, comboTimeoutHandle, isPowermodeActive, decayTimers,
          disposed, comboMeter, obs, connecting, baseXp, xp, level, xpNextAbs, globalState, xpObs,
          storage, writes,
          settings, pitchIncrease, pitchResetTimer, pitchTimers, lastLineByEditor,
          revealedForSound, status, trackerDisposed, configUpdates, out, tobs>>

----------------------------------------------------------------------------
(* Program constants *)

COMBO_TIMEOUT == 5

POWERMODE_THRESHOLD == 10

(* Bounds of the model *)

MaxCombo == 12

MaxXp == 112

MaxLevel == 5

\* number of frames of the count animation (frame < 100 in renderComboCount),
\* scaled down to keep the animation's state small
AnimationFrames == 3

Min(a, b) == IF a < b THEN a ELSE b

----------------------------------------------------------------------------
(* Editors: the value of vscode.window.activeTextEditor, with its URI scheme *)

NoEditor == "null"

Editors == {"file1", "untitled1", "output1", "debug1", "vscodeSettings"}

Chars(s) ==
    CASE s = "file"            -> <<"f","i","l","e">>
      [] s = "untitled"        -> <<"u","n","t","i","t","l","e","d">>
      [] s = "output"          -> <<"o","u","t","p","u","t">>
      [] s = "debug"           -> <<"d","e","b","u","g">>
      [] s = "vscode-"         -> <<"v","s","c","o","d","e","-">>
      [] s = "vscode-settings" -> <<"v","s","c","o","d","e","-","s","e","t","t","i","n","g","s">>

Scheme(e) ==
    CASE e = "file1"          -> Chars("file")
      [] e = "untitled1"      -> Chars("untitled")
      [] e = "output1"        -> Chars("output")
      [] e = "debug1"         -> Chars("debug")
      [] e = "vscodeSettings" -> Chars("vscode-settings")

StartsWith(s, p) == Len(s) >= Len(p) /\ SubSeq(s, 1, Len(p)) = p

\* /^(output|debug|vscode-.*)/.test(scheme)
isReadOnlyEditor(e) ==
    \/ StartsWith(Scheme(e), Chars("output"))
    \/ StartsWith(Scheme(e), Chars("debug"))
    \/ StartsWith(Scheme(e), Chars("vscode-"))

\* editor.visibleRanges.find(r => !r.isEmpty): the start of the first
\* non-empty visible range, or NoRange when there is none
NoRange == -1

VisibleStarts == {NoRange, 0, 1}

----------------------------------------------------------------------------
(* XPService and the extension's globalState *)

\* values of the setting ridiculousCoding.leveling.baseXp (default 50)
BaseXps == {1, 15, 50}

\* amounts passed to addXp (the edit handler passes 1)
AddAmounts == {0, 1, 7}

Unset == -1

StateKeys == {"xp", "level", "xpNextAbs", "xpLevelStart"}

EmptyState == [k \in StateKeys |-> Unset]

\* globalState.get(key, defaultValue)
Get(gs, key, defaultValue) == IF gs[key] = Unset THEN defaultValue ELSE gs[key]

\* globalState.update(key, value): the value is readable at once
Update(gs, key, value) == [gs EXCEPT ![key] = value]

\* the storage holds the value of the key that globalState holds
NoWrite == [state |-> "stored", value |-> Unset]

NoWrites == [k \in StateKeys |-> NoWrite]

\* the keys persist() updates
PersistKeys == {"xp", "level", "xpNextAbs"}

\* mutant: the start of the level is not written at a level-up
WrittenKeys_NoStart(op, s) == IF op \in {"addXp", "reset", "setBaseXp"} THEN PersistKeys ELSE {}

\* the keys an operation passes to globalState.update
WrittenKeys(op, s) ==
    CASE op = "addXp"     -> IF s.leveledUp THEN StateKeys ELSE PersistKeys
      [] op = "reset"     -> StateKeys
      [] op = "setBaseXp" -> PersistKeys
      [] OTHER            -> {}

\* void globalState.update(key, value): the write to the storage is on its
\* way and its outcome is not awaited; it replaces an earlier write of the
\* key that is still on its way
Issue(w, op, s) ==
    [k \in StateKeys |->
        IF k \in WrittenKeys(op, s) THEN [state |-> "pending", value |-> s.gs[k]]
        ELSE w[k]]

\* mutant: the quotient is truncated
MathRoundTenth_Floor(a) == a \div 10

\* Math.round(a / 10) for an integer a: floor(a / 10 + 0.5)
MathRoundTenth(a) == (a + 5) \div 10

\* mutant: the increment is computed from the level being left
LevelIncrement_OldLevel(b, l) == MathRoundTenth(b * (l - 1)) * 10

\* Math.round((this.baseXp * this.level) / 10) * 10
LevelIncrement(b, l) == MathRoundTenth(b * l) * 10

\* mutant: the first target ignores the configured base
InitialTarget_Default(b) == 100

\* 2 * this.baseXp
InitialTarget(b) == 2 * b

\* mutant: the target has to be exceeded
ReachesTarget_Strict(x, target) == x > target

\* this.xp >= this.xpNextAbs
ReachesTarget(x, target) == x >= target

\* mutant: the target is not written
persist_NoTarget(s) ==
    [s EXCEPT !.gs = Update(Update(@, "xp", s.xp), "level", s.level)]

\* persist()
persist(s) ==
    [s EXCEPT !.gs = Update(Update(Update(@, "xp", s.xp), "level", s.level),
                            "xpNextAbs", s.xpNextAbs)]

\* setXpStartOfLevel(v)
setXpStartOfLevel(s, v) == [s EXCEPT !.gs = Update(@, "xpLevelStart", v)]

\* xpStartOfLevelInternal()
xpStartOfLevel(gs) == Get(gs, "xpLevelStart", 0)

\* mutant: the progress is counted from 0
progress_FromZero(s) == [current |-> s.xp, max |-> s.xpNextAbs]

\* get progress()
progress(s) ==
    [ current |-> s.xp - xpStartOfLevel(s.gs),
      max     |-> s.xpNextAbs - xpStartOfLevel(s.gs) ]

\* mutant: a stored target equal to the stored xp is replaced too
XPService_RepairAtEqual(gs, b) ==
    LET x      == Get(gs, "xp", 0)
        l      == Get(gs, "level", 1)
        stored == gs["xpNextAbs"]
        next   == IF stored = Unset THEN InitialTarget(b) ELSE stored
    IN  [ baseXp    |-> b,
          xp        |-> x,
          level     |-> l,
          xpNextAbs |-> IF next <= x THEN x + LevelIncrement(b, l) ELSE next,
          gs        |-> gs,
          leveledUp |-> FALSE ]

\* new XPService(context, b), context.globalState being gs
XPService(gs, b) ==
    LET x      == Get(gs, "xp", 0)
        l      == Get(gs, "level", 1)
        stored == gs["xpNextAbs"]
        next   == IF stored = Unset THEN InitialTarget(b) ELSE stored
    IN  [ baseXp    |-> b,
          xp        |-> x,
          level     |-> l,
          xpNextAbs |-> IF next < x THEN x + LevelIncrement(b, l) ELSE next,
          gs        |-> gs,
          leveledUp |-> FALSE ]

\* mutant: a level is gained for every target the amount passes
addXp_LevelPerTarget(s, n) ==
    LET x == s.xp + n
    IN  IF ReachesTarget(x, s.xpNextAbs)
        THEN LET l  == s.level + 1 + (x - s.xpNextAbs) \div (LevelIncrement(s.baseXp, s.level + 1) + 1)
                 s1 == setXpStartOfLevel([s EXCEPT !.xp = x, !.level = l], x)
             IN  persist([s1 EXCEPT !.xpNextAbs = x + LevelIncrement(s.baseXp, l),
                                    !.leveledUp = TRUE])
        ELSE persist([s EXCEPT !.xp = x, !.leveledUp = FALSE])

\* mutant: the amount is not added
addXp_NoGain(s, n) == persist([s EXCEPT !.leveledUp = FALSE])

addXp(s, n) ==
    LET x == s.xp + n
    IN  IF ReachesTarget(x, s.xpNextAbs)
        THEN LET l  == s.level + 1
                 s1 == setXpStartOfLevel([s EXCEPT !.xp = x, !.level = l], x)
             IN  persist([s1 EXCEPT !.xpNextAbs = x + LevelIncrement(s.baseXp, l),
                                    !.leveledUp = TRUE])
        ELSE persist([s EXCEPT !.xp = x, !.leveledUp = FALSE])

reset(s) ==
    LET s1 == setXpStartOfLevel([s EXCEPT !.level = 1, !.xp = 0], 0)
    IN  persist([s1 EXCEPT !.xpNextAbs = InitialTarget(s.baseXp)])

\* mutant: a change of base restarts the progress
setBaseXp_Restart(s, base) ==
    persist([s EXCEPT !.baseXp = base, !.xp = 0, !.xpNextAbs = InitialTarget(base)])

\* mutant: the target is recomputed in the middle of a level too
setBaseXp_Rescale(s, base) ==
    LET s1 == [s EXCEPT !.baseXp = base]
    IN  IF s1.level <= 1 /\ s1.xp = 0
        THEN persist([s1 EXCEPT !.xpNextAbs = InitialTarget(base)])
        ELSE persist([s1 EXCEPT !.xpNextAbs = s1.xp + LevelIncrement(base, s1.level)])

setBaseXp(s, base) ==
    LET s1 == [s EXCEPT !.baseXp = base]
    IN  IF s1.level <= 1 /\ s1.xp = 0
        THEN persist([s1 EXCEPT !.xpNextAbs = InitialTarget(base)])
        ELSE IF s1.xp >= s1.xpNextAbs
        THEN persist([s1 EXCEPT !.xpNextAbs = s1.xp + LevelIncrement(base, s1.level)])
        ELSE persist(s1)

\* the service object as a record
Service ==
    [ baseXp |-> baseXp, xp |-> xp, level |-> level, xpNextAbs |-> xpNextAbs,
      gs |-> globalState, leveledUp |-> xpObs.leveledUp ]

\* xp 0, level 1 and target 100 under base 50
Fresh50(s) == s.baseXp = 50 /\ s.xp = 0 /\ s.level = 1 /\ s.xpNextAbs = 100

\* the fields of the service become those of s after the call op(arg)
BecomesInMemory(s, op, arg) ==
    /\ baseXp' = s.baseXp
    /\ xp' = s.xp
    /\ level' = s.level
    /\ xpNextAbs' = s.xpNextAbs
    /\ globalState' = s.gs
    /\ xpObs' = [ lastOp    |-> op,
                  arg       |-> arg,
                  configured |-> IF op \in {"new", "setBaseXp"} THEN arg ELSE xpObs.configured,
                  leveledUp |-> s.leveledUp,
                  ones      |-> IF op = "addXp" /\ arg = 1
                                THEN (IF xpObs.ones >= 0 THEN xpObs.ones + 1 ELSE -1)
                                ELSE (IF Fresh50(s) THEN 0 ELSE -1) ]

\* the service becomes s after the call op(arg), the updates of globalState
\* it made being on their way to the storage
Becomes(s, op, arg) ==
    /\ BecomesInMemory(s, op, arg)
    /\ writes' = Issue(writes, op, s)
    /\ storage' = storage

\* the service right after new XPService(context, b) on an empty globalState
XpStarts(b) ==
    LET s == XPService(EmptyState, b)
    IN  /\ baseXp = s.baseXp
        /\ xp = s.xp
        /\ level = s.level
        /\ xpNextAbs = s.xpNextAbs
        /\ globalState = s.gs
        /\ storage = s.gs
        /\ writes = NoWrites
        /\ xpObs = [ lastOp |-> "new", arg |-> b, configured |-> b, leveledUp |-> FALSE,
                     ones |-> IF Fresh50(s) THEN 0 ELSE -1 ]

\* the extension is activated again: the service is constructed again from
\* the globalState it had
Construct(b) ==
    /\ Becomes(XPService(globalState, b), "new", b)
    /\ UNCHANGED <<comboVars, trackerVars>>

AddXp(n) ==
    /\ xp + n <= MaxXp
    /\ level < MaxLevel
    /\ Becomes(addXp(Service, n), "addXp", n)
    /\ UNCHANGED <<comboVars, trackerVars>>

Reset ==
    /\ Becomes(reset(Service), "reset", 0)
    /\ UNCHANGED <<comboVars, trackerVars>>

SetBaseXp(b) ==
    /\ Becomes(setBaseXp(Service, b), "setBaseXp", b)
    /\ UNCHANGED <<comboVars, trackerVars>>

XpNext ==
    \/ \E b \in BaseXps : Construct(b)
    \/ \E n \in AddAmounts : AddXp(n)
    \/ Reset
    \/ \E b \in BaseXps : SetBaseXp(b)

\* a write that is on its way reaches the storage
WriteCompletes(k) ==
    /\ writes[k].state = "pending"
    /\ storage' = [storage EXCEPT ![k] = writes[k].value]
    /\ writes' = [writes EXCEPT ![k] = NoWrite]
    /\ UNCHANGED <<baseXp, xp, level, xpNextAbs, globalState, xpObs>>
    /\ UNCHANGED <<comboVars, trackerVars>>

\* a write that is on its way fails: the rejection is dropped (void)
WriteFails(k) ==
    /\ writes[k].state = "pending"
    /\ writes' = [writes EXCEPT ![k] = [state |-> "failed", value |-> Unset]]
    /\ UNCHANGED <<baseXp, xp, level, xpNextAbs, globalState, xpObs, storage>>
    /\ UNCHANGED <<comboVars, trackerVars>>

\* the editor restarts once no write is on its way: the new extension host
\* loads globalState from the storage and constructs the service on it
Restart(b) ==
    /\ \A k \in StateKeys : writes[k].state # "pending"
    /\ BecomesInMemory(XPService(storage, b), "new", b)
    /\ writes' = NoWrites
    /\ storage' = storage
    /\ UNCHANGED <<comboVars, trackerVars>>

\* values found under the keys of a globalState written by an earlier session
\* or an earlier release of the extension (Unset: the key is missing)
StoredXps == {Unset, 0, 40, 100}

StoredLevels == {Unset, 1, 3}

StoredTargets == {Unset, 30, 100, 200}

StoredStarts == {Unset, 0}

StoredStates ==
    { [k \in StateKeys |->
          CASE k = "xp" -> x
            [] k = "level" -> l
            [] k = "xpNextAbs" -> t
            [] k = "xpLevelStart" -> st] :
      x \in StoredXps, l \in StoredLevels, t \in StoredTargets, st \in StoredStarts }

\* the service is constructed on a given globalState, and reconfigured
LoadNext ==
    \/ \E b \in BaseXps : Construct(b)
    \/ \E b \in BaseXps : SetBaseXp(b)
    \/ Reset

----------------------------------------------------------------------------
(* ComboMeter *)

MeterInit ==
    [ combo                      |-> 0,
      isPowermodeActive          |-> FALSE,
      initialPowermodeCombo      |-> 0,
      activeEditor               |-> NoEditor,
      renderedComboCount         |-> -1,        \* undefined
      renderedRange              |-> NoRange,   \* undefined
      comboCountDecoration       |-> "null",
      comboTimerDecoration       |-> "null",
      comboTimerInterval         |-> FALSE,     \* handle is non-null
      comboCountAnimationTimeout |-> FALSE,     \* handle is non-null
      timerDuration              |-> 0,
      timeLeft                   |-> 0,         \* timerExpiration - Date.now(), floored at 0
      pendingAnimation           |-> {},        \* event loop: pending animate() timeouts
      pendingInterval            |-> {},        \* event loop: live tick() intervals
      listening                  |-> TRUE ]     \* onDidChangeTextEditorVisibleRanges subscription

DisposeDecoration(d) == IF d = "null" THEN "null" ELSE "disposed"

\* mutant: the pending animate() timeout is left in place
ClearAnimationTimeout_NoClear(m) == m

\* if (handle) clearTimeout(handle): drops the pending entry the handle refers to
ClearAnimationTimeout(m) ==
    IF m.comboCountAnimationTimeout
    THEN [m EXCEPT !.pendingAnimation = {t \in @ : ~t.cur}]
    ELSE m

ClearTimerInterval(m) ==
    IF m.comboTimerInterval
    THEN [m EXCEPT !.pendingInterval = {t \in @ : ~t.cur}]
    ELSE m

\* this.comboCountAnimationTimeout = setTimeout(() => animate(f), ...)
SetAnimationTimeout(m, f) ==
    [m EXCEPT !.pendingAnimation =
                  {[frame |-> t.frame, cur |-> FALSE] : t \in @} \cup {[frame |-> f, cur |-> TRUE]},
              !.comboCountAnimationTimeout = TRUE]

\* this.comboTimerInterval = setInterval(tick, 50)
SetTimerInterval(m) ==
    [m EXCEPT !.pendingInterval = {[cur |-> FALSE] : t \in @} \cup {[cur |-> TRUE]},
              !.comboTimerInterval = TRUE]

onPowermodeStart(m, combo) ==
    [m EXCEPT !.isPowermodeActive = TRUE, !.initialPowermodeCombo = combo]

\* mutant: the start count is not reset
onPowermodeStop_KeepStart(m) == [m EXCEPT !.isPowermodeActive = FALSE]

onPowermodeStop(m) ==
    [m EXCEPT !.isPowermodeActive = FALSE, !.initialPowermodeCombo = 0]

clearDecorations(m) ==
    LET m1 == ClearTimerInterval(ClearAnimationTimeout(m))
    IN  [m1 EXCEPT !.renderedComboCount = 0,
                   !.renderedRange = NoRange,
                   !.comboCountDecoration = "null",
                   !.comboTimerDecoration = "null",
                   !.comboCountAnimationTimeout = FALSE,
                   !.comboTimerInterval = FALSE]

onComboStop(m) ==
    clearDecorations([m EXCEPT !.combo = 0, !.activeEditor = NoEditor])

\* the closure animate(frame) of renderComboCount
animate(m, frame) ==
    IF m.activeEditor = NoEditor
    THEN [m EXCEPT !.comboCountDecoration = DisposeDecoration(@)]
    ELSE LET m1 == [m EXCEPT !.comboCountDecoration = "shown"]
         IN  IF m1.isPowermodeActive /\ frame < AnimationFrames
             THEN SetAnimationTimeout(m1, frame + 1)
             ELSE m1

renderComboCount(m) == animate(ClearAnimationTimeout(m), 0)

renderTimer(m) == SetTimerInterval(ClearTimerInterval(m))

\* the closure tick() of renderTimer, run by the interval
tick(m) ==
    IF m.activeEditor = NoEditor
    THEN [ClearTimerInterval(m) EXCEPT !.comboTimerDecoration = DisposeDecoration(@)]
    ELSE IF m.timeLeft <= 0
    THEN [ClearTimerInterval(m) EXCEPT !.comboTimerDecoration = DisposeDecoration(@)]
    ELSE [m EXCEPT !.comboTimerDecoration = "shown"]

\* vis: the start of the editor's first non-empty visible range, or NoRange
updateDecorations(m, vis) ==
    IF vis = NoRange \/ m.combo < 1
    THEN clearDecorations(m)
    ELSE IF m.combo = m.renderedComboCount /\ m.renderedRange = vis
    THEN m
    ELSE renderTimer(renderComboCount(
            [m EXCEPT !.renderedComboCount = m.combo, !.renderedRange = vis]))

updateCombo(m, combo, comboTimeout, powermode, editor, vis) ==
    LET m1 == [m EXCEPT !.combo = combo,
                        !.timerDuration = comboTimeout,
                        !.timeLeft = comboTimeout,
                        !.isPowermodeActive = powermode]
        m2 == IF ~isReadOnlyEditor(editor) THEN [m1 EXCEPT !.activeEditor = editor] ELSE m1
    IN  IF m2.activeEditor # NoEditor THEN updateDecorations(m2, vis) ELSE m2

\* mutant: dispose() leaves the decorations and their timers
MeterDispose_KeepDecorations(m) == [m EXCEPT !.listening = FALSE]

MeterDispose(m) == [clearDecorations(m) EXCEPT !.listening = FALSE]

----------------------------------------------------------------------------
(* ComboTracker *)

\* mutant: the previous timeout is not cleared before re-arming
ClearComboTimeout_NoClear(timers, handle) == timers

\* if (this.comboTimeoutHandle) clearTimeout(this.comboTimeoutHandle)
ClearComboTimeout(timers, handle) ==
    IF handle THEN {t \in timers : ~t.cur} ELSE timers

\* this.comboTimeoutHandle = setTimeout(callback, this.comboTimeout * 1000)
SetComboTimeout(timers) ==
    {[rem |-> t.rem, cur |-> FALSE] : t \in timers} \cup {[rem |-> COMBO_TIMEOUT, cur |-> TRUE]}

\* mutant: the count is advanced twice per event
IncrementCombo_Twice(c) == c + 2

\* this.currentCombo++
IncrementCombo(c) == c + 1

\* mutant: strict comparison with the threshold
PowermodeActivates_Strict(active, combo) == ~active /\ combo > POWERMODE_THRESHOLD

\* !this.isPowermodeActive && this.currentCombo >= this.powermodeThreshold
PowermodeActivates(active, combo) == ~active /\ combo >= POWERMODE_THRESHOLD

ObsInit ==
    [ gap             |-> COMBO_TIMEOUT,  \* ticks since the last qualifying event (capped)
      streak          |-> 0,              \* qualifying events with every gap below the timeout
      fromZero        |-> FALSE,          \* the streak began with currentCombo = 0
      evBit           |-> FALSE,          \* flips on every qualifying event
      stopsSinceEvent |-> 0,              \* onComboStop calls since the last qualifying event
      pmStarts        |-> 0,              \* onPowermodeStart calls since the last combo stop
      pmStartArg      |-> 0 ]             \* argument of the last onPowermodeStart call

\* handleTextChange(): vscode.window.activeTextEditor is editor, whose first
\* non-empty visible range starts at vis
handleTextChange(editor, vis) ==
    IF editor = NoEditor \/ isReadOnlyEditor(editor)
    THEN UNCHANGED <<currentCombo, comboTimeoutHandle, isPowermodeActive,
                     decayTimers, disposed, comboMeter, obs>>
    ELSE LET combo    == IncrementCombo(currentCombo)
             starts   == PowermodeActivates(isPowermodeActive, combo)
             active   == isPowermodeActive \/ starts
             m1       == IF starts THEN onPowermodeStart(comboMeter, combo) ELSE comboMeter
             newBurst == obs.streak = 0 \/ obs.gap >= COMBO_TIMEOUT
         IN  /\ currentCombo < MaxCombo
             /\ currentCombo' = combo
             /\ isPowermodeActive' = active
             /\ decayTimers' = SetComboTimeout(ClearComboTimeout(decayTimers, comboTimeoutHandle))
             /\ comboTimeoutHandle' = TRUE
             /\ comboMeter' = updateCombo(m1, combo, COMBO_TIMEOUT, active, editor, vis)
             /\ obs' = [obs EXCEPT
                   !.gap = 0,
                   !.streak = IF newBurst THEN 1 ELSE Min(@ + 1, MaxCombo + 1),
                   !.fromZero = IF newBurst THEN currentCombo = 0 ELSE @,
                   !.evBit = ~@,
                   !.stopsSinceEvent = 0,
                   !.pmStarts = IF starts THEN Min(@ + 1, 2) ELSE @,
                   !.pmStartArg = IF starts THEN combo ELSE @]
             /\ UNCHANGED disposed

\* the 'power-mode' notification dispatch: TextChangedI and TextChanged call
\* handleTextChange, ModeChanged only logs
AutocmdEvents == {"TextChangedI", "TextChanged", "ModeChanged"}

Autocmd(event, editor, vis) ==
    /\ ~disposed
    /\ IF event = "ModeChanged"
       THEN UNCHANGED <<currentCombo, comboTimeoutHandle, isPowermodeActive,
                        decayTimers, disposed, comboMeter, obs>>
       ELSE handleTextChange(editor, vis)
    /\ UNCHANGED <<xpVars, trackerVars, connecting>>

\* the fields the timeout callback works on, and the number of
\* onPowermodeStop calls it has made
Tracker ==
    [ currentCombo |-> currentCombo, isPowermodeActive |-> isPowermodeActive,
      comboMeter |-> comboMeter, powermodeStops |-> 0 ]

\* mutant: the meter is told to stop power mode whether or not it is active
comboTimeoutCallback_AlwaysStops(T) ==
    [ currentCombo      |-> 0,
      isPowermodeActive |-> FALSE,
      comboMeter        |-> onComboStop(onPowermodeStop(T.comboMeter)),
      powermodeStops    |-> T.powermodeStops + 1 ]

\* the body of the setTimeout callback of handleTextChange
comboTimeoutCallback(T) ==
    LET m1 == IF T.isPowermodeActive THEN onPowermodeStop(T.comboMeter) ELSE T.comboMeter
    IN  [ currentCombo      |-> 0,
          isPowermodeActive |-> FALSE,
          comboMeter        |-> onComboStop(m1),
          powermodeStops    |-> T.powermodeStops + (IF T.isPowermodeActive THEN 1 ELSE 0) ]

\* the setTimeout callback of handleTextChange, run for the due entry t
ComboTimeoutFires(t) ==
    /\ t \in decayTimers
    /\ t.rem = 0
    /\ decayTimers' = decayTimers \ {t}
    /\ comboMeter' = comboTimeoutCallback(Tracker).comboMeter
    /\ isPowermodeActive' = comboTimeoutCallback(Tracker).isPowermodeActive
    /\ currentCombo' = comboTimeoutCallback(Tracker).currentCombo
    /\ obs' = [obs EXCEPT !.stopsSinceEvent = Min(@ + 1, 2), !.pmStarts = 0]
    /\ UNCHANGED <<comboTimeoutHandle, disposed>>
    /\ UNCHANGED <<xpVars, trackerVars, connecting>>

\* one second passes; a due timeout runs before the next second does
Tick ==
    /\ \A t \in decayTimers : t.rem > 0
    /\ decayTimers # {} \/ obs.gap < COMBO_TIMEOUT \/ comboMeter.timeLeft > 0
    /\ decayTimers' = {[rem |-> t.rem - 1, cur |-> t.cur] : t \in decayTimers}
    /\ comboMeter' = [comboMeter EXCEPT !.timeLeft = IF @ > 0 THEN @ - 1 ELSE 0]
    /\ obs' = [obs EXCEPT !.gap = Min(@ + 1, COMBO_TIMEOUT)]
    /\ UNCHANGED <<currentCombo, comboTimeoutHandle, isPowermodeActive, disposed>>
    /\ UNCHANGED <<xpVars, trackerVars, connecting>>

\* a pending animate(frame) timeout of the meter runs
AnimationFires(t) ==
    /\ t \in comboMeter.pendingAnimation
    /\ comboMeter' = animate([comboMeter EXCEPT !.pendingAnimation = @ \ {t}], t.frame)
    /\ UNCHANGED <<currentCombo, comboTimeoutHandle, isPowermodeActive, decayTimers, disposed, obs>>
    /\ UNCHANGED <<xpVars, trackerVars, connecting>>

\* a live countdown-bar interval of the meter runs tick()
IntervalFires(t) ==
    /\ t \in comboMeter.pendingInterval
    /\ comboMeter' = tick(comboMeter)
    /\ UNCHANGED <<currentCombo, comboTimeoutHandle, isPowermodeActive, decayTimers, disposed, obs>>
    /\ UNCHANGED <<xpVars, trackerVars, connecting>>

\* onDidChangeTextEditorVisibleRanges listener of the meter
VisibleRangesChanged(editor, vis) ==
    /\ comboMeter.listening
    /\ comboMeter' = IF comboMeter.activeEditor = editor
                     THEN updateDecorations(comboMeter, vis)
                     ELSE comboMeter
    /\ UNCHANGED <<currentCombo, comboTimeoutHandle, isPowermodeActive, decayTimers, disposed, obs>>
    /\ UNCHANGED <<xpVars, trackerVars, connecting>>

\* ComboTracker.dispose(), called by deactivate()
Dispose ==
    /\ ~disposed
    /\ disposed' = TRUE
    /\ comboMeter' = MeterDispose(comboMeter)
    /\ decayTimers' = ClearComboTimeout(decayTimers, comboTimeoutHandle)
    /\ comboTimeoutHandle' = FALSE
    /\ UNCHANGED <<currentCombo, isPowermodeActive, obs>>
    /\ UNCHANGED <<xpVars, trackerVars, connecting>>

----------------------------------------------------------------------------
(* RidiculousTracker: settings, editors and text changes *)

PITCH_RESET_MS == 180

\* time passes in steps of TickMs milliseconds
TickMs == 90

\* inserts handled by one tracker: MaxInserts in general, MaxBurst for a burst
\* of typing under the default settings
MaxInserts == 2

MaxBurst == 22

\* changes of the configuration delivered to one tracker
MaxConfigChanges == 1

ToggleKeys == {"explosions", "blips", "chars", "shake", "sound", "fireworks", "reducedEffects"}

\* the defaults of cfg.get(key, default)
DefaultSettings ==
    [ explosions |-> TRUE, blips |-> TRUE, chars |-> TRUE, shake |-> TRUE, sound |-> TRUE,
      fireworks |-> TRUE, baseXp |-> 50, enableStatusBar |-> TRUE, reducedEffects |-> FALSE ]

\* the defaults, but the status bar item is hidden
NoStatusBar == [DefaultSettings EXCEPT !.enableStatusBar = FALSE]

\* every assignment of the seven toggles, the other settings at their defaults
ToggleSettings ==
    { [ explosions |-> e, blips |-> b, chars |-> c, shake |-> sh, sound |-> so,
        fireworks |-> f, baseXp |-> 50, enableStatusBar |-> TRUE, reducedEffects |-> r ] :
      e \in BOOLEAN, b \in BOOLEAN, c \in BOOLEAN, sh \in BOOLEAN, so \in BOOLEAN,
      f \in BOOLEAN, r \in BOOLEAN }

\* the assignments of blips, explosions and reducedEffects, the other toggles on
EffectSettings ==
    {cfg \in ToggleSettings : cfg.chars /\ cfg.shake /\ cfg.sound /\ cfg.fireworks}

\* every effect switched off, and reduced effects on
QuietSettings ==
    [ explosions |-> FALSE, blips |-> FALSE, chars |-> FALSE, shake |-> FALSE,
      sound |-> FALSE, fireworks |-> FALSE, baseXp |-> 50, enableStatusBar |-> TRUE,
      reducedEffects |-> TRUE ]

\* values a changed setting can take
SettingValues(key) ==
    IF key = "baseXp" THEN {15, 50} ELSE BOOLEAN

\* editors the tracker sees as vscode.window.activeTextEditor or e.textEditor
TrackerEditors == {"file1", "output1"}

NoLine == -1

Lines == {0, 1}

NL == "\n"

\* change.text, as a sequence of characters
Texts == {<< >>, <<"a">>, <<NL>>}

\* change.rangeLength
RangeLengths == {0, 1}

\* evt.contentChanges[0]
NoChange == [text |-> << >>, rangeLength |-> -1]

Changes == {NoChange} \cup [text : Texts, rangeLength : RangeLengths]

\* the character a is typed
TypedA == [text |-> <<"a">>, rangeLength |-> 0]

\* one character is removed
Backspace == [text |-> << >>, rangeLength |-> 1]

\* evt.contentChanges: no change, one change, or a change followed by another
ContentChanges ==
    {<< >>} \cup {<<c>> : c \in Changes \ {NoChange}}
            \cup {<<c, d>> : c \in Changes \ {NoChange}, d \in {TypedA, Backspace}}

\* mutant: the last content change is taken
FirstChange_Last(contentChanges) ==
    IF contentChanges = << >> THEN NoChange ELSE contentChanges[Len(contentChanges)]

\* evt.contentChanges[0], undefined for an empty list
FirstChange(contentChanges) ==
    IF contentChanges = << >> THEN NoChange ELSE Head(contentChanges)

isInsert(change) == Len(change.text) > 0

isDelete(change) == ~isInsert(change) /\ change.rangeLength > 0

\* insertedText.includes("\n")
IncludesNewline(text) == \E i \in 1..Len(text) : text[i] = NL

sanitizeLabel(ch) ==
    CASE ch = NL   -> ""
      [] ch = "\t" -> "TAB"     \* the glyph U+21B9
      [] ch = " "  -> "SPACE"
      [] OTHER     -> ch

NoLabel == "undefined"

charLabel(change, s) ==
    IF isInsert(change) /\ s.chars THEN sanitizeLabel(change.text[1])
    ELSE IF isDelete(change) /\ s.chars THEN "BACKSPACE"
    ELSE NoLabel

\* mutant: blips are shown under reduced effects too
BlipsOn_IgnoreReduced(s) == s.blips

\* this.settings.blips && !this.settings.reducedEffects
BlipsOn(s) == s.blips /\ ~s.reducedEffects

\* mutant: the newline effect is shown under reduced effects too
NewlineOn_IgnoreReduced(text, s) == s.blips /\ IncludesNewline(text)

\* this.settings.blips && insertedText.includes("\n") && !this.settings.reducedEffects
NewlineOn(text, s) == s.blips /\ IncludesNewline(text) /\ ~s.reducedEffects

\* mutant: explosions are shown under reduced effects too
BoomsOn_IgnoreReduced(s) == s.explosions

\* this.settings.explosions && !this.settings.reducedEffects
BoomsOn(s) == s.explosions /\ ~s.reducedEffects

\* leveled && this.settings.fireworks && !this.settings.reducedEffects
FireworksOn(leveled, s) == leveled /\ s.fireworks /\ ~s.reducedEffects

\* mutant: the pitch keeps rising with the accumulator
Pitch_Uncapped(acc) == 100 + acc * 5

\* 1.0 + Math.min(20, this.pitchIncrease) * 0.05, in hundredths
Pitch(acc) == 100 + Min(20, acc) * 5

\* mutant: the pending reset is not cancelled
ClearPitchTimeout_NoClear(timers, handle) == timers

\* if (this.pitchResetTimer) clearTimeout(this.pitchResetTimer)
ClearPitchTimeout(timers, handle) ==
    IF handle THEN {t \in timers : ~t.cur} ELSE timers

\* this.pitchResetTimer = setTimeout(() => { this.pitchIncrease = 0; }, PITCH_RESET_MS)
SetPitchTimeout(timers) ==
    {[left |-> t.left, cur |-> FALSE] : t \in timers} \cup {[left |-> PITCH_RESET_MS, cur |-> TRUE]}

\* mutant: the state message does not carry the start of the level
StateMessage_NoStart(s) ==
    [ type |-> "state", xp |-> s.xp, level |-> s.level, xpNext |-> s.xpNextAbs,
      xpLevelStart |-> 0 ]

\* the messages posted to the panel
StateMessage(s) ==
    [ type |-> "state", xp |-> s.xp, level |-> s.level, xpNext |-> s.xpNextAbs,
      xpLevelStart |-> xpStartOfLevel(s.gs) ]

BlipMessage(pitch, s) ==
    [ type |-> "blip", pitch |-> pitch, enabled |-> s.sound /\ ~s.reducedEffects ]

BoomMessage(s) == [ type |-> "boom", enabled |-> s.sound /\ ~s.reducedEffects ]

FireworksMessage(enabled) == [ type |-> "fireworks", enabled |-> enabled ]

\* the calls made on the EffectManager
ShowBlip(editor, s, label) ==
    [ effect |-> "blip", editor |-> editor, chars |-> s.chars, shake |-> s.shake, label |-> label ]

ShowBoom(editor, s, label) ==
    [ effect |-> "boom", editor |-> editor, chars |-> s.chars, shake |-> s.shake, label |-> label ]

ShowNewline(editor, s) ==
    [ effect |-> "newline", editor |-> editor, chars |-> FALSE, shake |-> s.shake, label |-> NoLabel ]

ClearAllDecorations ==
    [ effect |-> "clear", editor |-> NoEditor, chars |-> FALSE, shake |-> FALSE, label |-> NoLabel ]

\* updateStatus()
updateStatus(st, s, svc) ==
    IF ~s.enableStatusBar
    THEN [st EXCEPT !.visible = FALSE]
    ELSE [ visible |-> TRUE, level |-> svc.level,
           current |-> progress(svc).current,
           max     |-> progress(svc).max ]

\* what a step sends out: the messages posted to the panel, the calls made on
\* the EffectManager, and whether the panel was revealed; nothing at first
\* and in a step that runs no handler
Silent == [ handler |-> "none", posted |-> << >>, shown |-> << >>, revealed |-> FALSE ]

Sent(handler, posted, shown, revealed) ==
    [ handler |-> handler, posted |-> posted, shown |-> shown, revealed |-> revealed ]

Posts(o, type) == \E i \in 1..Len(o.posted) : o.posted[i].type = type

Shows(o, effect) == \E i \in 1..Len(o.shown) : o.shown[i].effect = effect

TobsInit(budget, changes) ==
    [ gap         |-> PITCH_RESET_MS,  \* ms since the last insert with blips on (capped)
      run         |-> 0,               \* inserts with blips on since the accumulator was reset,
                                       \* each less than PITCH_RESET_MS after the one before
      kind        |-> "none",          \* the edit the last step handled, if any
      editor      |-> NoEditor,        \* and the active editor it met
      insertsLeft |-> budget,          \* inserts still to be handled
      changesLeft |-> changes ]        \* configuration changes still to be delivered

\* the tracker right after new RidiculousTracker(context), the configuration
\* holding cfg
TrackerStarts(cfg, budget, changes) ==
    /\ settings = cfg
    /\ pitchIncrease = 0
    /\ pitchResetTimer = FALSE
    /\ pitchTimers = {}
    /\ lastLineByEditor = [e \in TrackerEditors |-> NoLine]
    /\ revealedForSound = FALSE
    /\ status = updateStatus([visible |-> FALSE, level |-> 0, current |-> 0, max |-> 0],
                             cfg, Service)
    /\ trackerDisposed = FALSE
    /\ configUpdates = << >>
    /\ out = Silent
    /\ tobs = TobsInit(budget, changes)

(* RidiculousTracker: handlers, commands and the pitch reset timer *)

\* handleTextDocumentChange(evt): vscode.window.activeTextEditor is editor,
\* sameDoc tells whether evt.document is editor.document, change is
\* evt.contentChanges[0] and line is editor.selection.active.line
handleTextDocumentChange(editor, sameDoc, change, line) ==
    IF editor = NoEditor \/ ~sameDoc \/ change = NoChange
    THEN /\ out' = Sent("textChange", << >>, << >>, FALSE)
         /\ UNCHANGED <<settings, pitchIncrease, pitchResetTimer, pitchTimers,
                        lastLineByEditor, revealedForSound, status, trackerDisposed>>
         /\ UNCHANGED xpVars
    ELSE LET label   == charLabel(change, settings)
             newline == IF NewlineOn(change.text, settings)
                        THEN <<ShowNewline(editor, settings)>> ELSE << >>
         IN  /\ lastLineByEditor' = [lastLineByEditor EXCEPT ![editor] = line]
             /\ UNCHANGED <<settings, trackerDisposed>>
             /\ IF isInsert(change) /\ BlipsOn(settings)
                THEN LET reveal == settings.sound /\ ~revealedForSound
                         acc    == pitchIncrease + 1
                         svc    == addXp(Service, 1)
                         fw     == IF FireworksOn(svc.leveledUp, settings)
                                   THEN <<FireworksMessage(settings.sound
                                                           /\ ~settings.reducedEffects)>>
                                   ELSE << >>
                     IN  /\ revealedForSound' = (revealedForSound \/ reveal)
                         /\ pitchIncrease' = acc
                         /\ pitchTimers' =
                                SetPitchTimeout(ClearPitchTimeout(pitchTimers, pitchResetTimer))
                         /\ pitchResetTimer' = TRUE
                         /\ Becomes(svc, "addXp", 1)
                         /\ status' = updateStatus(status, settings, svc)
                         /\ out' = Sent("textChange",
                                        <<BlipMessage(Pitch(acc), settings)>> \o fw
                                            \o <<StateMessage(svc)>>,
                                        <<ShowBlip(editor, settings, label)>> \o newline,
                                        reveal)
                ELSE IF isInsert(change)
                THEN LET svc == addXp(Service, 1)
                     IN  /\ Becomes(svc, "addXp", 1)
                         /\ status' = updateStatus(status, settings, svc)
                         /\ out' = Sent("textChange", <<StateMessage(svc)>>, newline, FALSE)
                         /\ UNCHANGED <<pitchIncrease, pitchResetTimer, pitchTimers,
                                        revealedForSound>>
                ELSE IF isDelete(change) /\ BoomsOn(settings)
                THEN /\ out' = Sent("textChange",
                                    <<BoomMessage(settings), StateMessage(Service)>>,
                                    <<ShowBoom(editor, settings, label)>> \o newline, FALSE)
                     /\ UNCHANGED <<pitchIncrease, pitchResetTimer, pitchTimers,
                                    revealedForSound, status>>
                     /\ UNCHANGED xpVars
                ELSE /\ out' = Sent("textChange", << >>, newline, FALSE)
                     /\ UNCHANGED <<pitchIncrease, pitchResetTimer, pitchTimers,
                                    revealedForSound, status>>
                     /\ UNCHANGED xpVars

\* the kind of edit a text-change notification carries: an insert or a delete
\* in the document of the active editor, or none
EditKind(editor, sameDoc, change) ==
    IF editor = NoEditor \/ ~sameDoc \/ change = NoChange THEN "none"
    ELSE IF Len(change.text) > 0 THEN "insert"
    ELSE IF change.rangeLength > 0 THEN "delete"
    ELSE "none"

\* vscode.workspace.onDidChangeTextDocument
TextDocumentChanged(editor, sameDoc, change, line) ==
    LET kind == EditKind(editor, sameDoc, change)
        blip == kind = "insert" /\ settings.blips /\ ~settings.reducedEffects
    IN  /\ ~trackerDisposed
        /\ kind = "insert" => tobs.insertsLeft > 0
        /\ handleTextDocumentChange(editor, sameDoc, change, line)
        /\ tobs' = [tobs EXCEPT
               !.kind = kind,
               !.editor = editor,
               !.gap = IF blip THEN 0 ELSE @,
               !.run = IF blip
                       THEN (IF @ = 0 THEN 1
                             ELSE IF @ > 0 /\ tobs.gap < PITCH_RESET_MS THEN @ + 1
                             ELSE -1)
                       ELSE IF kind = "insert" /\ @ # 0 THEN -1
                       ELSE @,
               !.insertsLeft = IF kind = "insert" THEN @ - 1 ELSE @]
        /\ UNCHANGED <<comboVars, configUpdates>>

\* the same notification, given by its whole list of content changes
TextDocumentChangeEvent(editor, sameDoc, contentChanges, line) ==
    TextDocumentChanged(editor, sameDoc, FirstChange(contentChanges), line)

\* handleSelectionChange(e): e.textEditor is editor, whose caret is on line
handleSelectionChange(editor, line) ==
    LET last == lastLineByEditor[editor]
    IN  /\ out' = Sent("selectionChange", << >>,
                       IF last # NoLine /\ line # last /\ settings.blips
                          /\ ~settings.reducedEffects
                       THEN <<ShowNewline(editor, settings)>> ELSE << >>,
                       FALSE)
        /\ lastLineByEditor' = [lastLineByEditor EXCEPT ![editor] = line]
        /\ UNCHANGED <<settings, pitchIncrease, pitchResetTimer, pitchTimers,
                       revealedForSound, status, trackerDisposed>>

\* the observer after a step that is no text-change notification
NoEdit(o) == [o EXCEPT !.kind = "none", !.editor = NoEditor]

\* vscode.window.onDidChangeTextEditorSelection
SelectionChanged(editor, line) ==
    /\ ~trackerDisposed
    /\ handleSelectionChange(editor, line)
    /\ tobs' = NoEdit(tobs)
    /\ UNCHANGED <<comboVars, xpVars, configUpdates>>

\* handleConfigChange(e): affects is e.affectsConfiguration("ridiculousCoding")
\* and cfg holds the values of the configuration after the change
handleConfigChange(affects, cfg) ==
    IF ~affects
    THEN /\ out' = Sent("configChange", << >>, << >>, FALSE)
         /\ UNCHANGED <<settings, status>>
         /\ UNCHANGED xpVars
    ELSE LET svc == setBaseXp(Service, cfg.baseXp)
         IN  /\ settings' = cfg
             /\ Becomes(svc, "setBaseXp", cfg.baseXp)
             /\ status' = updateStatus(status, cfg, svc)
             /\ out' = Sent("configChange",
                            <<StateMessage(svc), StateMessage(svc)>>,
                            IF ~settings.reducedEffects /\ cfg.reducedEffects
                            THEN <<ClearAllDecorations>> ELSE << >>,
                            FALSE)

\* vscode.workspace.onDidChangeConfiguration: one setting was given a value
ConfigurationChanged(affects, key, value) ==
    /\ ~trackerDisposed
    /\ affects => tobs.changesLeft > 0
    /\ handleConfigChange(affects, IF affects THEN [settings EXCEPT ![key] = value] ELSE settings)
    /\ tobs' = [NoEdit(tobs) EXCEPT !.changesLeft = IF affects THEN @ - 1 ELSE @]
    /\ UNCHANGED <<pitchIncrease, pitchResetTimer, pitchTimers, lastLineByEditor,
                   revealedForSound, trackerDisposed>>
    /\ UNCHANGED <<comboVars, configUpdates>>

\* the command ridiculousCoding.resetXp
ResetXpCommand ==
    /\ ~trackerDisposed
    /\ LET svc == reset(Service)
       IN  /\ Becomes(svc, "reset", 0)
           /\ status' = updateStatus(status, settings, svc)
           /\ out' = Sent("resetXp",
                          <<StateMessage(svc)>> \o
                              (IF settings.fireworks THEN <<FireworksMessage(settings.sound)>>
                               ELSE << >>),
                          << >>, FALSE)
    /\ tobs' = NoEdit(tobs)
    /\ UNCHANGED <<settings, pitchIncrease, pitchResetTimer, pitchTimers, lastLineByEditor,
                   revealedForSound, trackerDisposed>>
    /\ UNCHANGED <<comboVars, configUpdates>>

\* the callback of the pitch reset timer runs
PitchResetFires(t) ==
    /\ t \in pitchTimers
    /\ t.left = 0
    /\ pitchTimers' = pitchTimers \ {t}
    /\ pitchIncrease' = 0
    /\ tobs' = [NoEdit(tobs) EXCEPT !.run = 0]
    /\ out' = Silent
    /\ UNCHANGED <<settings, pitchResetTimer, lastLineByEditor, revealedForSound, status,
                   trackerDisposed>>
    /\ UNCHANGED <<comboVars, xpVars, configUpdates>>

\* TickMs milliseconds pass; a due reset runs before more time passes
PitchTick ==
    /\ \A t \in pitchTimers : t.left > 0
    /\ pitchTimers # {} \/ tobs.gap < PITCH_RESET_MS
    /\ pitchTimers' = {[left |-> IF t.left > TickMs THEN t.left - TickMs ELSE 0,
                        cur |-> t.cur] : t \in pitchTimers}
    /\ tobs' = [NoEdit(tobs) EXCEPT !.gap = Min(@ + TickMs, PITCH_RESET_MS)]
    /\ out' = Silent
    /\ UNCHANGED <<settings, pitchIncrease, pitchResetTimer, lastLineByEditor,
                   revealedForSound, status, trackerDisposed>>
    /\ UNCHANGED <<comboVars, xpVars, configUpdates>>

\* updates of the configuration that can be on their way at once
MaxPendingUpdates == 2

\* mutant: the toggle command writes the value the snapshot has
ToggleValue_Same(s, key) == s[key]

\* const newVal = !(this.settings[key] as any as boolean)
ToggleValue(s, key) == ~s[key]

\* toggle(key): cfg.update(configKey, newVal, true) is asked for and not
\* awaited
Toggle(key) ==
    /\ ~trackerDisposed
    /\ tobs.changesLeft > 0
    /\ Len(configUpdates) < MaxPendingUpdates
    /\ configUpdates' = Append(configUpdates, [key |-> key, value |-> ToggleValue(settings, key)])
    /\ out' = Sent("toggle", << >>, << >>, FALSE)
    /\ tobs' = [NoEdit(tobs) EXCEPT !.changesLeft = @ - 1]
    /\ UNCHANGED <<settings, pitchIncrease, pitchResetTimer, pitchTimers, lastLineByEditor,
                   revealedForSound, status, trackerDisposed>>
    /\ UNCHANGED <<comboVars, xpVars>>

\* the oldest update asked for is applied to the configuration; when it
\* changes the value of its key, onDidChangeConfiguration is fired and the
\* handler reads the new configuration
ConfigUpdateApplied ==
    /\ ~trackerDisposed
    /\ configUpdates # << >>
    /\ configUpdates' = Tail(configUpdates)
    /\ LET u   == Head(configUpdates)
           cfg == [settings EXCEPT ![u.key] = u.value]
       IN  IF cfg # settings
           THEN handleConfigChange(TRUE, cfg)
           ELSE /\ out' = Silent
                /\ UNCHANGED <<settings, status>>
                /\ UNCHANGED xpVars
    /\ tobs' = NoEdit(tobs)
    /\ UNCHANGED <<pitchIncrease, pitchResetTimer, pitchTimers, lastLineByEditor,
                   revealedForSound, trackerDisposed>>
    /\ UNCHANGED comboVars

\* the values PanelViewProvider reads from globalState for its replies
PanelState(gs) ==
    [ xp |-> Get(gs, "xp", 0), level |-> Get(gs, "level", 1),
      xpNext |-> Get(gs, "xpNextAbs", 100), xpLevelStart |-> Get(gs, "xpLevelStart", 0) ]

\* onDidReceiveMessage of the panel: "ready" is answered by init,
\* "requestState" by state
PanelMessage(type) ==
    /\ ~trackerDisposed
    /\ out' = Sent(type,
                   IF type = "ready"
                   THEN <<[type |-> "init", settings |-> settings,
                           state |-> PanelState(globalState)]>>
                   ELSE <<[type |-> "state", state |-> PanelState(globalState)]>>,
                   << >>, FALSE)
    /\ tobs' = NoEdit(tobs)
    /\ UNCHANGED <<settings, pitchIncrease, pitchResetTimer, pitchTimers, lastLineByEditor,
                   revealedForSound, status, trackerDisposed, configUpdates>>
    /\ UNCHANGED <<comboVars, xpVars>>

\* dispose() of the tracker
TrackerDispose ==
    /\ ~trackerDisposed
    /\ trackerDisposed' = TRUE
    /\ pitchTimers' = ClearPitchTimeout(pitchTimers, pitchResetTimer)
    /\ out' = Sent("dispose", << >>, << >>, FALSE)
    /\ tobs' = NoEdit(tobs)
    /\ UNCHANGED <<settings, pitchIncrease, pitchResetTimer, lastLineByEditor,
                   revealedForSound, status>>
    /\ UNCHANGED <<comboVars, xpVars, configUpdates>>

----------------------------------------------------------------------------
(* NativeSoundPlayer: the choice of the sound file *)

\* pitches passed to play(), in hundredths
MinPitch == 90

MaxPitch == 210

Pitches == MinPitch..MaxPitch

Sounds == {"blip", "boom", "fireworks"}

\* i.toString().padStart(2, '0'), as the two digits
PadStart2(i) == IF i < 10 THEN <<0, i>> ELSE <<i \div 10, i % 10>>

\* the key of a sound: "blip", "boom", "fireworks" (no suffix), or "blip_pNN"
SoundKey(name, suffix) == [name |-> name, suffix |-> suffix]

NoSound == SoundKey("none", << >>)

\* the keys of this.soundPaths after initializeSoundPaths()
soundPaths ==
    {SoundKey(n, << >>) : n \in Sounds} \cup {SoundKey("blip", PadStart2(i)) : i \in 1..20}

\* mutant: the quotient is truncated
variantIndex_Floor(pitch) == (pitch - 100) \div 5

\* Math.round((pitch - 1.0) / 0.05): floor((pitch - 1.0) / 0.05 + 0.5)
variantIndex(pitch) == (2 * (pitch - 100) + 5) \div 10

\* selectedSound of play(soundName, pitch)
selectedSound(soundName, pitch) ==
    IF soundName = "blip" /\ pitch > 100
    THEN IF variantIndex(pitch) >= 20 THEN SoundKey("blip", <<2, 0>>)
         ELSE IF variantIndex(pitch) > 0 THEN SoundKey("blip", PadStart2(variantIndex(pitch)))
         ELSE SoundKey(soundName, << >>)
    ELSE SoundKey(soundName, << >>)

\* the key whose file play(soundName, pitch) plays, or NoSound
play(enabled, soundName, pitch) ==
    LET selected == selectedSound(soundName, pitch)
    IN  IF ~enabled THEN NoSound
        ELSE IF selected \in soundPaths THEN selected
        ELSE IF SoundKey(soundName, << >>) \in soundPaths THEN SoundKey(soundName, << >>)
        ELSE NoSound

\* the call play(soundName, pitch) and the file it chose
PlayCall(enabled, soundName, pitch) ==
    [ effect |-> "sound", enabled |-> enabled, soundName |-> soundName, pitch |-> pitch,
      file |-> play(enabled, soundName, pitch) ]

\* NativeSoundPlayer.play(soundName, pitch), this.enabled being enabled
Play(enabled, soundName, pitch) ==
    /\ out' = Sent("play", << >>, <<PlayCall(enabled, soundName, pitch)>>, FALSE)
    /\ tobs' = NoEdit(tobs)
    /\ UNCHANGED <<settings, pitchIncrease, pitchResetTimer, pitchTimers, lastLineByEditor,
                   revealedForSound, status, trackerDisposed>>
    /\ UNCHANGED <<comboVars, xpVars, configUpdates>>

\* the blip of the acc-th insert of a run is played at the pitch the edit
\* handler gives it
PlayBlip(acc) == Play(TRUE, "blip", Pitch(acc))

----------------------------------------------------------------------------
(* getExistingNeovimClient: the attempts to get the client of vscode-neovim *)

maxRetries == 10

\* milliseconds
retryDelay == 1000

\* what an attempt yields: the command resolves with a client, resolves with
\* nothing, or throws
Outcomes == {"client", "none", "threw"}

\* the call at the first evaluation of the loop condition: i is the loop
\* counter, pc the place the call is at ("attempt": awaiting the command,
\* "wait": awaiting the delay, "returned", "failed"), outcomes what the
\* attempts made so far have yielded, waited the milliseconds of delay awaited
ConnectInit == [pc |-> "attempt", i |-> 0, outcomes |-> << >>, waited |-> 0]

\* mutant: the delay is awaited after the last attempt too
WaitsAfter_Always(i) == TRUE

\* if (i < maxRetries - 1)
WaitsAfter(i) == i < maxRetries - 1

\* the place the call is at when the loop counter has become i
LoopAt(i) == IF i < maxRetries THEN "attempt" ELSE "failed"

\* await vscode.commands.executeCommand('_getNeovimClient') settles with
\* outcome, in the try block of iteration i
Attempt(outcome) ==
    /\ connecting.pc = "attempt"
    /\ connecting' =
           IF outcome = "client"
           THEN [connecting EXCEPT !.pc = "returned", !.outcomes = Append(@, outcome)]
           ELSE IF WaitsAfter(connecting.i)
           THEN [connecting EXCEPT !.pc = "wait", !.outcomes = Append(@, outcome)]
           ELSE [connecting EXCEPT !.pc = LoopAt(connecting.i + 1), !.i = @ + 1,
                                   !.outcomes = Append(@, outcome)]
    /\ UNCHANGED <<currentCombo, comboTimeoutHandle, isPowermodeActive, decayTimers,
                   disposed, comboMeter, obs>>
    /\ UNCHANGED <<xpVars, trackerVars>>

\* the timeout of retryDelay ms resolves the awaited promise; i++ and the
\* loop condition follow
DelayElapsed ==
    /\ connecting.pc = "wait"
    /\ connecting' = [connecting EXCEPT !.pc = LoopAt(connecting.i + 1), !.i = @ + 1,
                                        !.waited = @ + retryDelay]
    /\ UNCHANGED <<currentCombo, comboTimeoutHandle, isPowermodeActive, decayTimers,
                   disposed, comboMeter, obs>>
    /\ UNCHANGED <<xpVars, trackerVars>>

----------------------------------------------------------------------------
(* Specifications *)

\* the state after activation: a new ComboTracker (with its ComboMeter) and a
\* new XPService on an empty globalState
Init ==
    /\ currentCombo = 0
    /\ comboTimeoutHandle = FALSE
    /\ isPowermodeActive = FALSE
    /\ decayTimers = {}
    /\ disposed = FALSE
    /\ comboMeter = MeterInit
    /\ obs = ObsInit
    /\ connecting = ConnectInit
    /\ \E b \in BaseXps : XpStarts(b)
    /\ TrackerStarts(NoStatusBar, 0, 0)

ComboNext ==
    \/ \E event \in AutocmdEvents, editor \in Editors \cup {NoEditor}, vis \in VisibleStarts :
           Autocmd(event, editor, vis)
    \/ \E t \in decayTimers : ComboTimeoutFires(t)
    \/ Tick
    \/ \E t \in comboMeter.pendingAnimation : AnimationFires(t)
    \/ \E t \in comboMeter.pendingInterval : IntervalFires(t)
    \/ \E editor \in Editors, vis \in VisibleStarts : VisibleRangesChanged(editor, vis)
    \/ Dispose

\* the same, the setting leveling.baseXp being left at its default
InitDefault ==
    /\ currentCombo = 0
    /\ comboTimeoutHandle = FALSE
    /\ isPowermodeActive = FALSE
    /\ decayTimers = {}
    /\ disposed = FALSE
    /\ comboMeter = MeterInit
    /\ obs = ObsInit
    /\ connecting = ConnectInit
    /\ XpStarts(50)
    /\ TrackerStarts(DefaultSettings, 0, 0)

ComboSpec == InitDefault /\ [][ComboNext]_vars

XpSpec == Init /\ [][XpNext]_vars

\* activation on a globalState that holds any stored values
LoadInit ==
    /\ currentCombo = 0
    /\ comboTimeoutHandle = FALSE
    /\ isPowermodeActive = FALSE
    /\ decayTimers = {}
    /\ disposed = FALSE
    /\ comboMeter = MeterInit
    /\ obs = ObsInit
    /\ connecting = ConnectInit
    /\ \E gs \in StoredStates, b \in BaseXps :
          LET s == XPService(gs, b)
          IN  /\ baseXp = s.baseXp
              /\ xp = s.xp
              /\ level = s.level
              /\ xpNextAbs = s.xpNextAbs
              /\ globalState = s.gs
              /\ storage = s.gs
              /\ writes = NoWrites
              /\ xpObs = [ lastOp |-> "new", arg |-> b, configured |-> b,
                           leveledUp |-> FALSE, ones |-> -1 ]
    /\ TrackerStarts(NoStatusBar, 0, 0)

LoadSpec == LoadInit /\ [][LoadNext]_vars

\* the largest base the level-up increment is computed for
MaxBase == 30

\* a globalState that holds level l and makes the next addXp(1) level up
\* (stale FALSE), or holds a target below the xp (stale TRUE)
StoredAtLevel(l, stale) ==
    [k \in StateKeys |->
        CASE k = "xp" -> IF stale THEN 10 ELSE 0
          [] k = "level" -> l
          [] k = "xpNextAbs" -> IF stale THEN 5 ELSE 1
          [] k = "xpLevelStart" -> Unset]

\* amounts and bases of the calls made while the storage is watched
PersistAmounts == {60}

PersistBases == {15, 50}

\* a globalState left by an earlier session: one insert short of level 2
NearLevelUp ==
    [k \in StateKeys |->
        CASE k = "xp" -> 99
          [] k = "level" -> 1
          [] k = "xpNextAbs" -> 100
          [] k = "xpLevelStart" -> Unset]

\* the service right after new XPService(context, b) on the globalState gs
XpStartsOn(gs, b) ==
    LET s == XPService(gs, b)
    IN  /\ baseXp = s.baseXp
        /\ xp = s.xp
        /\ level = s.level
        /\ xpNextAbs = s.xpNextAbs
        /\ globalState = s.gs
        /\ storage = s.gs
        /\ writes = NoWrites
        /\ xpObs = [ lastOp |-> "new", arg |-> b, configured |-> b, leveledUp |-> FALSE,
                     ones |-> -1 ]

\* the tracker under its default configuration, which changes at most
\* MaxConfigChanges times
TrackerNext ==
    \/ \E change \in Changes, line \in Lines :
           TextDocumentChanged("file1", TRUE, change, line)
    \/ \E editor \in {"file1", NoEditor} : TextDocumentChanged(editor, FALSE, TypedA, 0)
    \/ \E line \in Lines : SelectionChanged("file1", line)
    \/ \E key \in ToggleKeys \cup {"baseXp", "enableStatusBar"} :
           \E value \in SettingValues(key) : ConfigurationChanged(TRUE, key, value)
    \/ ConfigurationChanged(FALSE, "blips", TRUE)
    \/ ResetXpCommand
    \/ \E t \in pitchTimers : PitchResetFires(t)
    \/ PitchTick
    \/ TrackerDispose

TrackerInit ==
    /\ currentCombo = 0
    /\ comboTimeoutHandle = FALSE
    /\ isPowermodeActive = FALSE
    /\ decayTimers = {}
    /\ disposed = FALSE
    /\ comboMeter = MeterInit
    /\ obs = ObsInit
    /\ connecting = ConnectInit
    /\ XpStartsOn(NearLevelUp, 50)
    /\ TrackerStarts(DefaultSettings, MaxInserts, MaxConfigChanges)

TrackerSpec == TrackerInit /\ [][TrackerNext]_vars

\* edits under every assignment of the toggles, the configuration staying as
\* it was at activation
EditNext ==
    \/ \E editor \in TrackerEditors, change \in Changes :
           TextDocumentChanged(editor, TRUE, change, 0)
    \/ \E editor \in TrackerEditors \cup {NoEditor} :
           TextDocumentChanged(editor, FALSE, TypedA, 0)
    \/ \E t \in pitchTimers : PitchResetFires(t)
    \/ PitchTick

EditInit ==
    /\ currentCombo = 0
    /\ comboTimeoutHandle = FALSE
    /\ isPowermodeActive = FALSE
    /\ decayTimers = {}
    /\ disposed = FALSE
    /\ comboMeter = MeterInit
    /\ obs = ObsInit
    /\ connecting = ConnectInit
    /\ XpStartsOn(NearLevelUp, 50)
    /\ \E cfg \in ToggleSettings : TrackerStarts(cfg, MaxInserts, 0)

EditSpec == EditInit /\ [][EditNext]_vars

\* a burst of typing in one editor under the default configuration
BurstNext ==
    \/ \E change \in Changes : TextDocumentChanged("file1", TRUE, change, 0)
    \/ \E t \in pitchTimers : PitchResetFires(t)
    \/ PitchTick

BurstInit ==
    /\ currentCombo = 0
    /\ comboTimeoutHandle = FALSE
    /\ isPowermodeActive = FALSE
    /\ decayTimers = {}
    /\ disposed = FALSE
    /\ comboMeter = MeterInit
    /\ obs = ObsInit
    /\ connecting = ConnectInit
    /\ XpStartsOn(EmptyState, 50)
    /\ TrackerStarts(DefaultSettings, MaxBurst, 0)

BurstSpec == BurstInit /\ [][BurstNext]_vars

\* both trackers at work in one editor: Neovim reports text changes to the
\* combo tracker, VS Code reports typed characters to the edit tracker, the
\* visible range of the editor changes, and the timers of both run
TimerNext ==
    \/ \E vis \in {NoRange, 0} : Autocmd("TextChangedI", "file1", vis)
    \/ \E t \in decayTimers : ComboTimeoutFires(t)
    \/ Tick
    \/ \E t \in comboMeter.pendingAnimation : AnimationFires(t)
    \/ \E t \in comboMeter.pendingInterval : IntervalFires(t)
    \/ \E vis \in VisibleStarts : VisibleRangesChanged("file1", vis)
    \/ TextDocumentChanged("file1", TRUE, TypedA, 0)
    \/ \E t \in pitchTimers : PitchResetFires(t)
    \/ PitchTick

TimerInit ==
    /\ currentCombo = 0
    /\ comboTimeoutHandle = FALSE
    /\ isPowermodeActive = FALSE
    /\ decayTimers = {}
    /\ disposed = FALSE
    /\ comboMeter = MeterInit
    /\ obs = ObsInit
    /\ connecting = ConnectInit
    /\ XpStartsOn(EmptyState, 50)
    /\ TrackerStarts(NoStatusBar, MaxInserts, 0)

TimerSpec == TimerInit /\ [][TimerNext]_vars

\* text-change notifications with every list of content changes, for the
\* document of the active editor or for another one
ClassifyNext ==
    \/ \E editor \in {"file1", NoEditor}, sameDoc \in BOOLEAN, contentChanges \in ContentChanges :
           TextDocumentChangeEvent(editor, sameDoc, contentChanges, 0)
    \/ \E t \in pitchTimers : PitchResetFires(t)
    \/ PitchTick

ClassifyInit ==
    /\ currentCombo = 0
    /\ comboTimeoutHandle = FALSE
    /\ isPowermodeActive = FALSE
    /\ decayTimers = {}
    /\ disposed = FALSE
    /\ comboMeter = MeterInit
    /\ obs = ObsInit
    /\ connecting = ConnectInit
    /\ XpStartsOn(NearLevelUp, 50)
    /\ \E cfg \in EffectSettings : TrackerStarts(cfg, MaxInserts, 0)

ClassifySpec == ClassifyInit /\ [][ClassifyNext]_vars

\* the combo tracker at work while the leveling state and the effect toggles
\* are any of several: Neovim notifications arrive with a writable, a read-only
\* or no active editor
ForwardNext ==
    \/ \E event \in AutocmdEvents, editor \in {"file1", "output1", NoEditor} :
           Autocmd(event, editor, 0)
    \/ \E t \in decayTimers : ComboTimeoutFires(t)
    \/ Tick
    \/ \E t \in comboMeter.pendingAnimation : AnimationFires(t)
    \/ \E t \in comboMeter.pendingInterval : IntervalFires(t)

ForwardInit ==
    /\ currentCombo = 0
    /\ comboTimeoutHandle = FALSE
    /\ isPowermodeActive = FALSE
    /\ decayTimers = {}
    /\ disposed = FALSE
    /\ comboMeter = MeterInit
    /\ obs = ObsInit
    /\ connecting = ConnectInit
    /\ \E gs \in {EmptyState, NearLevelUp} : XpStartsOn(gs, 50)
    /\ \E cfg \in {DefaultSettings, QuietSettings} : TrackerStarts(cfg, 0, 0)

ForwardSpec == ForwardInit /\ [][ForwardNext]_vars

\* the leveling service with its storage: calls, writes that complete or fail,
\* and restarts of the editor
PersistNext ==
    \/ \E n \in PersistAmounts : AddXp(n)
    \/ Reset
    \/ \E b \in PersistBases : SetBaseXp(b)
    \/ \E k \in StateKeys : WriteCompletes(k)
    \/ \E k \in StateKeys : WriteFails(k)
    \/ \E b \in PersistBases : Restart(b)

PersistInit ==
    /\ currentCombo = 0
    /\ comboTimeoutHandle = FALSE
    /\ isPowermodeActive = FALSE
    /\ decayTimers = {}
    /\ disposed = FALSE
    /\ comboMeter = MeterInit
    /\ obs = ObsInit
    /\ connecting = ConnectInit
    /\ XpStartsOn(EmptyState, 15)
    /\ TrackerStarts(NoStatusBar, 0, 0)

PersistSpec == PersistInit /\ [][PersistNext]_vars

\* the service constructed with any base on any stored level, and typed into
IncrementNext == AddXp(1)

IncrementInit ==
    /\ currentCombo = 0
    /\ comboTimeoutHandle = FALSE
    /\ isPowermodeActive = FALSE
    /\ decayTimers = {}
    /\ disposed = FALSE
    /\ comboMeter = MeterInit
    /\ obs = ObsInit
    /\ connecting = ConnectInit
    /\ \E b \in 0..MaxBase, l \in 1..(MaxLevel - 1), stale \in BOOLEAN :
          XpStartsOn(StoredAtLevel(l, stale), b)
    /\ TrackerStarts(NoStatusBar, 0, 0)

IncrementSpec == IncrementInit /\ [][IncrementNext]_vars

\* the panel asks for the state while xp is earned, reset and reconfigured
PanelNext ==
    \/ \E type \in {"ready", "requestState"} : PanelMessage(type)
    \/ TextDocumentChanged("file1", TRUE, TypedA, 0)
    \/ ResetXpCommand
    \/ \E value \in SettingValues("baseXp") : ConfigurationChanged(TRUE, "baseXp", value)
    \/ \E t \in pitchTimers : PitchResetFires(t)
    \/ PitchTick

PanelInit ==
    /\ currentCombo = 0
    /\ comboTimeoutHandle = FALSE
    /\ isPowermodeActive = FALSE
    /\ decayTimers = {}
    /\ disposed = FALSE
    /\ comboMeter = MeterInit
    /\ obs = ObsInit
    /\ connecting = ConnectInit
    /\ \E b \in SettingValues("baseXp"), gs \in {EmptyState, NearLevelUp} :
           /\ XpStartsOn(gs, b)
           /\ TrackerStarts([DefaultSettings EXCEPT !.baseXp = b], MaxInserts, MaxConfigChanges)

PanelSpec == PanelInit /\ [][PanelNext]_vars

\* two toggle commands are invoked while text is edited and xp is reset, the
\* configuration being changed by these commands only
ToggleNext ==
    \/ \E key \in ToggleKeys : Toggle(key)
    \/ ConfigUpdateApplied
    \/ \E change \in {TypedA, Backspace} : TextDocumentChanged("file1", TRUE, change, 0)
    \/ \E line \in Lines : SelectionChanged("file1", line)
    \/ ResetXpCommand
    \/ \E t \in pitchTimers : PitchResetFires(t)
    \/ PitchTick

ToggleInit ==
    /\ currentCombo = 0
    /\ comboTimeoutHandle = FALSE
    /\ isPowermodeActive = FALSE
    /\ decayTimers = {}
    /\ disposed = FALSE
    /\ comboMeter = MeterInit
    /\ obs = ObsInit
    /\ connecting = ConnectInit
    /\ XpStartsOn(NearLevelUp, 50)
    /\ TrackerStarts(DefaultSettings, 1, 2)

ToggleSpec == ToggleInit /\ [][ToggleNext]_vars

\* the extension connects to the Neovim client
ConnectNext ==
    \/ \E outcome \in Outcomes : Attempt(outcome)
    \/ DelayElapsed

ConnectStart ==
    /\ currentCombo = 0
    /\ comboTimeoutHandle = FALSE
    /\ isPowermodeActive = FALSE
    /\ decayTimers = {}
    /\ disposed = FALSE
    /\ comboMeter = MeterInit
    /\ obs = ObsInit
    /\ connecting = ConnectInit
    /\ XpStartsOn(EmptyState, 50)
    /\ TrackerStarts(DefaultSettings, 0, 0)

\* the host settles the command it was asked to execute, and the event loop
\* runs the timeout of the delay
ConnectFairness ==
    /\ WF_vars(\E outcome \in Outcomes : Attempt(outcome))
    /\ WF_vars(DelayElapsed)

ConnectSpec == ConnectStart /\ [][ConnectNext]_vars /\ ConnectFairness

\* the sound player is asked for any sound at any pitch
SoundNext ==
    \/ \E enabled \in BOOLEAN, soundName \in Sounds, pitch \in Pitches :
           Play(enabled, soundName, pitch)
    \/ \E acc \in 1..MaxBurst : PlayBlip(acc)

SoundInit ==
    /\ currentCombo = 0
    /\ comboTimeoutHandle = FALSE
    /\ isPowermodeActive = FALSE
    /\ decayTimers = {}
    /\ disposed = FALSE
    /\ comboMeter = MeterInit
    /\ obs = ObsInit
    /\ connecting = ConnectInit
    /\ XpStartsOn(EmptyState, 50)
    /\ TrackerStarts(DefaultSettings, 0, 0)

SoundSpec == SoundInit /\ [][SoundNext]_vars

\* the event loop runs a due timeout, and time passes
ComboFairness == WF_vars(Tick) /\ WF_vars(\E t \in decayTimers : ComboTimeoutFires(t))

ComboLiveSpec == ComboSpec /\ ComboFairness

----------------------------------------------------------------------------
(* Claims about the combo engine *)

QualifyingEvent == obs'.evBit # obs.evBit

ComboStopStep == obs'.stopsSinceEvent = obs.stopsSinceEvent + 1

\* C1: starting from combo 0, after N qualifying events whose gaps all stay
\* below the combo timeout the count is N, and every qualifying event adds
\* exactly 1 to the count.
C1_CountEqualsEvents ==
    /\ [](obs.fromZero /\ obs.streak > 0 /\ obs.gap < COMBO_TIMEOUT
            => currentCombo = obs.streak)
    /\ [][QualifyingEvent => currentCombo' = currentCombo + 1]_vars

C1_Witness ==
    /\ obs.fromZero /\ obs.streak = POWERMODE_THRESHOLD + 1
    /\ currentCombo = POWERMODE_THRESHOLD + 1
    /\ obs.gap = COMBO_TIMEOUT - 1

\* C2: a running combo whose last qualifying event is followed by no other
\* for the combo timeout is reset to 0 by the decay timer, which fires only
\* once the full timeout has passed, and onComboStop is called exactly once
\* for the burst: not zero times, and not again before the next event.
C2_StopExactlyOnce ==
    /\ [](obs.stopsSinceEvent <= 1)
    /\ [](obs.streak > 0 => ((currentCombo = 0) <=> (obs.stopsSinceEvent = 1)))
    /\ [][ComboStopStep => obs.gap = COMBO_TIMEOUT /\ currentCombo > 0 /\ currentCombo' = 0]_vars
    /\ \A b \in BOOLEAN :
          (currentCombo > 0 /\ obs.evBit = b /\ ~disposed)
             ~> (currentCombo = 0 \/ obs.evBit # b \/ disposed)

C2_Witness ==
    /\ currentCombo = 0 /\ obs.stopsSinceEvent = 1
    /\ obs.streak = 2 /\ obs.gap = COMBO_TIMEOUT

\* C3: in a burst, power mode turns on at exactly the event that brings the
\* count to the threshold; onPowermodeStart is called once per burst with
\* that count, and initialPowermodeCombo keeps it until the combo stops.
C3_PowermodeActivation ==
    /\ [](isPowermodeActive <=> currentCombo >= POWERMODE_THRESHOLD)
    /\ [](obs.pmStarts = IF isPowermodeActive THEN 1 ELSE 0)
    /\ [](isPowermodeActive =>
            /\ obs.pmStartArg = POWERMODE_THRESHOLD
            /\ comboMeter.initialPowermodeCombo = obs.pmStartArg
            /\ comboMeter.isPowermodeActive)
    /\ [][~isPowermodeActive /\ isPowermodeActive' =>
            /\ QualifyingEvent
            /\ currentCombo < POWERMODE_THRESHOLD
            /\ currentCombo' >= POWERMODE_THRESHOLD
            /\ obs'.pmStartArg = currentCombo']_vars

C3_Witness ==
    /\ isPowermodeActive
    /\ currentCombo = POWERMODE_THRESHOLD + 2
    /\ comboMeter.initialPowermodeCombo = POWERMODE_THRESHOLD
    /\ obs.pmStarts = 1

\* C4: active power mode survives every qualifying event and ends only in
\* the combo stop, which in the same step sets the count and the start
\* count to 0; power mode is never active with count 0.
C4_PowermodeUntilStop ==
    /\ [](isPowermodeActive => currentCombo > 0)
    /\ [][isPowermodeActive /\ QualifyingEvent => isPowermodeActive']_vars
    /\ [][isPowermodeActive /\ ~isPowermodeActive' =>
            /\ ComboStopStep
            /\ currentCombo' = 0
            /\ comboMeter'.initialPowermodeCombo = 0
            /\ ~comboMeter'.isPowermodeActive]_vars

C4_Witness ==
    /\ obs.fromZero /\ obs.streak >= POWERMODE_THRESHOLD
    /\ obs.stopsSinceEvent = 1
    /\ currentCombo = 0 /\ ~isPowermodeActive
    /\ comboMeter.initialPowermodeCombo = 0

\* C5 (as claimed): count = 0, no pending decay timer and inactive power
\* mode are equivalent in every state.
C5_AsClaimed ==
    /\ (currentCombo = 0) <=> (decayTimers = {})
    /\ (decayTimers = {}) <=> ~isPowermodeActive

\* C5 (amended): count = 0 implies no pending decay timer and inactive power
\* mode; until dispose() a positive count has a pending decay timer.
C5_ZeroImpliesIdle ==
    /\ currentCombo = 0 => decayTimers = {} /\ ~isPowermodeActive
    /\ ~disposed /\ currentCombo > 0 => decayTimers # {}

C5_Witness ==
    /\ currentCombo = 3 /\ ~isPowermodeActive /\ decayTimers # {} /\ ~disposed

----------------------------------------------------------------------------
(* Claims about the leveling service *)

\* a / 10 rounded to the nearest integer, halves rounded up (a >= 0)
NearestTenth(a) ==
    CHOOSE k \in (a \div 10)..(a \div 10 + 1) : 10 * k - 5 <= a /\ a < 10 * k + 5

\* C6: addXp(n) with n >= 0, setBaseXp and construction never lower xp; the
\* only step that lowers xp is reset(), which sets it to 0.
C6_XpMonotonic ==
    /\ [][xpObs'.lastOp \in {"addXp", "setBaseXp", "new"} => xp' >= xp]_vars
    /\ [][xp' < xp => xpObs'.lastOp = "reset" /\ xp' = 0]_vars

C6_Witness ==
    /\ xpObs.lastOp = "setBaseXp" /\ xpObs.arg = 15
    /\ xp = 107 /\ level = 2

\* C7: addXp(n) returns true exactly when xp + n reaches the target held
\* before the call; then level grows by 1, xpLevelStart becomes the new xp
\* and the target becomes xp + round(baseXp * newLevel / 10) * 10; otherwise
\* level, xpLevelStart and the target are unchanged and it returns false.
C7_LevelUpIff ==
    [][xpObs'.lastOp = "addXp" =>
        LET reached == (xp + xpObs'.arg >= xpNextAbs)
        IN  /\ xp' = xp + xpObs'.arg
            /\ xpObs'.leveledUp <=> reached
            /\ reached =>
                 /\ level' = level + 1
                 /\ xpStartOfLevel(globalState') = xp'
                 /\ xpNextAbs' = xp' + NearestTenth(baseXp * level') * 10
            /\ ~reached =>
                 /\ level' = level
                 /\ xpStartOfLevel(globalState') = xpStartOfLevel(globalState)
                 /\ xpNextAbs' = xpNextAbs]_vars

C7_Witness ==
    /\ xpObs.lastOp = "addXp" /\ xpObs.arg = 7 /\ xpObs.leveledUp
    /\ baseXp = 15 /\ level = 3 /\ xpNextAbs = xp + 50

\* C8 (as claimed): from the fresh state under base 50, calls 1..99 of
\* addXp(1) return false and the 100th returns true, leaving level 2,
\* xp 100 and target 110.
C8_AsClaimed ==
    /\ xpObs.ones \in 1..99 => ~xpObs.leveledUp /\ level = 1 /\ xp = xpObs.ones
    /\ xpObs.ones = 100 => xpObs.leveledUp /\ level = 2 /\ xp = 100 /\ xpNextAbs = 110

\* C8 (amended): from the fresh state under base 50, calls 1..99 of addXp(1)
\* return false and the 100th returns true, leaving level 2, xp 100 and
\* target 200 = 100 + round(50 * 2 / 10) * 10.
C8_HundredthCallLevelsUp ==
    /\ xpObs.ones \in 1..99 => ~xpObs.leveledUp /\ level = 1 /\ xp = xpObs.ones
    /\ xpObs.ones = 100 => xpObs.leveledUp /\ level = 2 /\ xp = 100 /\ xpNextAbs = 200

C8_Witness ==
    /\ xpObs.ones = 100 /\ xpObs.leveledUp /\ level = 2 /\ xp = 100 /\ xpNextAbs = 200

\* C9: reset() leaves xp 0, level 1, xpLevelStart 0 and the target at twice
\* the base configured last, and writes these values to globalState.
C9_ResetState ==
    xpObs.lastOp = "reset" =>
        /\ xp = 0 /\ level = 1
        /\ xpNextAbs = 2 * xpObs.configured
        /\ globalState = [k \in StateKeys |->
               CASE k = "xp" -> 0
                 [] k = "level" -> 1
                 [] k = "xpLevelStart" -> 0
                 [] k = "xpNextAbs" -> 2 * xpObs.configured]

C9_Witness ==
    /\ xpObs.lastOp = "reset" /\ xpObs.configured = 15
    /\ xpNextAbs = 30 /\ globalState["xpNextAbs"] = 30

\* C10: after construction and after every call the state satisfies
\* xpLevelStart <= xp < xpNextThreshold.
C10_AsClaimed ==
    /\ xpStartOfLevel(globalState) <= xp
    /\ xp < xpNextAbs

\* C11: the constructor reads xp, level and the target from globalState,
\* a missing key giving xp 0, level 1 and target 2 * baseXp; a target below
\* the xp read is replaced by xp + round(baseXp * level / 10) * 10, and in
\* every other case the three values are used as read.  The constructor
\* writes nothing.
C11_ConstructorLoads ==
    xpObs.lastOp = "new" =>
        LET b      == xpObs.configured
            x      == IF globalState["xp"] = Unset THEN 0 ELSE globalState["xp"]
            l      == IF globalState["level"] = Unset THEN 1 ELSE globalState["level"]
            loaded == IF globalState["xpNextAbs"] = Unset THEN 2 * b
                      ELSE globalState["xpNextAbs"]
        IN  /\ baseXp = b
            /\ xp = x
            /\ level = l
            /\ loaded < x  => xpNextAbs = x + NearestTenth(b * l) * 10
            /\ loaded >= x => xpNextAbs = loaded

\* a stored target below the stored xp has been replaced
C11_Witness ==
    /\ xpObs.lastOp = "new" /\ xpObs.configured = 15
    /\ globalState["xp"] = 40 /\ globalState["level"] = 3 /\ globalState["xpNextAbs"] = 30
    /\ xp = 40 /\ level = 3 /\ xpNextAbs = 90

\* the keys are missing, or the stored target equals the stored xp: used as read
C11_WitnessUnchanged ==
    /\ xpObs.lastOp = "new"
    /\ globalState["xp"] = 100 /\ globalState["xpNextAbs"] = 100 /\ xpNextAbs = 100

\* C12: setBaseXp(newBase) never changes xp or level; the target becomes
\* 2 * newBase when level is 1 and xp is 0, becomes
\* xp + round(newBase * level / 10) * 10 when xp is at or above the old
\* target, and is left as it was in every other state.
C12_SetBaseXpFrame ==
    [][xpObs'.lastOp = "setBaseXp" =>
        LET b == xpObs'.arg
        IN  /\ baseXp' = b
            /\ xp' = xp
            /\ level' = level
            /\ xpNextAbs' = IF level = 1 /\ xp = 0 THEN 2 * b
                            ELSE IF xp >= xpNextAbs THEN xp + NearestTenth(b * level) * 10
                            ELSE xpNextAbs]_vars

\* the base was changed in the middle of level 1: the target of base 50 is kept
C12_Witness ==
    /\ xpObs.lastOp = "setBaseXp" /\ xpObs.arg = 15 /\ baseXp = 15
    /\ xp = 40 /\ level = 1 /\ xpNextAbs = 100

\* the base was changed with xp at the target: the target is recomputed
C12_WitnessRecomputed ==
    /\ xpObs.lastOp = "setBaseXp" /\ xpObs.arg = 50
    /\ xp = 2 /\ level = 2 /\ xpNextAbs = 102

----------------------------------------------------------------------------
(* Claims about stopping the combo *)

\* the fields of a tracker record that a stop sets
Stopped(T) ==
    /\ T.currentCombo = 0
    /\ ~T.isPowermodeActive
    /\ T.comboMeter.combo = 0
    /\ ~T.comboMeter.isPowermodeActive
    /\ T.comboMeter.initialPowermodeCombo = 0
    /\ T.comboMeter.pendingAnimation = {}
    /\ T.comboMeter.pendingInterval = {}

\* C19: applying the combo stop (the body of the timeout callback, and
\* ComboMeter.onComboStop) twice in a row leaves the same tracker and meter
\* as applying it once: count 0, power mode inactive, start count 0, no
\* pending timer; the second stop makes no onPowermodeStop call.  After the
\* callback has run no decay timer is pending.
C19_StopIdempotent ==
    /\ [](LET once  == comboTimeoutCallback(Tracker)
              twice == comboTimeoutCallback(once)
          IN  /\ Stopped(once)
              /\ twice.currentCombo = once.currentCombo
              /\ twice.isPowermodeActive = once.isPowermodeActive
              /\ twice.comboMeter = once.comboMeter
              /\ twice.powermodeStops = once.powermodeStops
              /\ onComboStop(onComboStop(comboMeter)) = onComboStop(comboMeter))
    /\ [][ComboStopStep => Stopped(Tracker)' /\ decayTimers' = {}]_vars

\* power mode is active and the meter has timers pending: the first stop
\* changes the tracker and tells the meter once that power mode stopped
C19_Witness ==
    /\ isPowermodeActive /\ currentCombo >= POWERMODE_THRESHOLD
    /\ comboMeter.pendingAnimation # {} /\ comboMeter.pendingInterval # {}
    /\ comboTimeoutCallback(Tracker).comboMeter # comboMeter
    /\ comboTimeoutCallback(comboTimeoutCallback(Tracker)).powermodeStops = 1

\* C20 (as claimed): after dispose() the count is 0, power mode is inactive,
\* the power-mode start count is 0 and no decay timer is pending.
C20_AsClaimed ==
    disposed =>
        /\ currentCombo = 0
        /\ ~isPowermodeActive
        /\ comboMeter.initialPowermodeCombo = 0
        /\ decayTimers = {}

\* C20 (amended): dispose() cancels the decay timer and the meter's timers,
\* so that no combo stop happens afterwards, and leaves the count, the
\* power-mode flag and the power-mode start count as they were.
C20_DisposeCancelsTimers ==
    /\ [](disposed =>
            /\ decayTimers = {} /\ ~comboTimeoutHandle
            /\ comboMeter.pendingAnimation = {} /\ comboMeter.pendingInterval = {})
    /\ [][(~disposed /\ disposed') =>
            /\ currentCombo' = currentCombo
            /\ isPowermodeActive' = isPowermodeActive
            /\ comboMeter'.initialPowermodeCombo = comboMeter.initialPowermodeCombo]_vars
    /\ [][disposed => ~ComboStopStep /\ currentCombo' = currentCombo]_vars

\* the tracker was disposed in power mode
C20_Witness ==
    /\ disposed /\ isPowermodeActive /\ currentCombo = POWERMODE_THRESHOLD + 1
    /\ comboMeter.initialPowermodeCombo = POWERMODE_THRESHOLD
    /\ decayTimers = {}

----------------------------------------------------------------------------
(* Claims about the edit handler of the tracker *)

\* the step handles a text-change notification that carries an insert
InsertStep == tobs'.kind = "insert"

\* the step handles a text-change notification that carries a delete
DeleteStep == tobs'.kind = "delete"

\* C13: every text-change notification that carries an insert into the
\* document of the active editor raises xp by exactly 1, whatever the seven
\* toggles are.
C13_InsertAddsOneXp ==
    [][InsertStep => xp' = xp + 1]_vars

\* an insert was handled with every toggle off but reducedEffects
C13_Witness ==
    /\ tobs.kind = "insert" /\ xp = 100 /\ xpObs.lastOp = "addXp"
    /\ ~settings.blips /\ ~settings.explosions /\ ~settings.chars /\ ~settings.shake
    /\ ~settings.sound /\ ~settings.fireworks /\ settings.reducedEffects

\* C14: a text-change notification that carries a delete changes none of xp,
\* level, xpLevelStart and the target; it sends a boom exactly when
\* explosions is on and reducedEffects is off, and never a blip or fireworks.
C14_DeleteFrame ==
    [][DeleteStep =>
        /\ xp' = xp /\ level' = level /\ xpNextAbs' = xpNextAbs
        /\ xpStartOfLevel(globalState') = xpStartOfLevel(globalState)
        /\ globalState' = globalState
        /\ Posts(out', "boom") <=> (settings.explosions /\ ~settings.reducedEffects)
        /\ Shows(out', "boom") <=> (settings.explosions /\ ~settings.reducedEffects)
        /\ ~Posts(out', "blip") /\ ~Shows(out', "blip")
        /\ ~Posts(out', "fireworks")]_vars

\* a delete was handled with explosions on and a boom went out
C14_Witness ==
    /\ tobs.kind = "delete" /\ settings.explosions /\ ~settings.reducedEffects
    /\ Posts(out, "boom") /\ Shows(out, "boom") /\ xp = 99

\* C15 (as claimed): an insert or delete met by a read-only active editor
\* (scheme output, debug or vscode-*) sends nothing out and changes neither
\* the xp state nor the pitch accumulator and its timer.
C15_AsClaimed ==
    [][(tobs'.kind \in {"insert", "delete"} /\ isReadOnlyEditor(tobs'.editor)) =>
        /\ out'.posted = << >> /\ out'.shown = << >>
        /\ xp' = xp /\ level' = level /\ xpNextAbs' = xpNextAbs
        /\ globalState' = globalState
        /\ pitchIncrease' = pitchIncrease /\ pitchTimers' = pitchTimers]_vars

\* C16 (as claimed): an insert whose addXp reports a level-up while fireworks
\* is on and reducedEffects is off sends fireworks, whatever blips is; an
\* insert whose addXp reports no level-up sends no fireworks.
C16_AsClaimed ==
    [][InsertStep =>
        /\ (xpObs'.leveledUp /\ settings.fireworks /\ ~settings.reducedEffects)
               => Posts(out', "fireworks")
        /\ ~xpObs'.leveledUp => ~Posts(out', "fireworks")]_vars

\* the pitch of the blip the last step posted, in hundredths (0: no blip)
BlipPitch ==
    IF Posts(out, "blip")
    THEN (CHOOSE m \in {out.posted[i] : i \in 1..Len(out.posted)} : m.type = "blip").pitch
    ELSE 0

C18_AsClaimed ==
    [][InsertStep =>
        /\ pitchIncrease' = pitchIncrease + 1
        /\ pitchTimers' = {[left |-> PITCH_RESET_MS, cur |-> TRUE]}]_vars

\* C18 (amended): an insert handled with blips on and reducedEffects off
\* raises the accumulator by exactly 1 and leaves exactly one pending reset
\* timer, armed anew; every other insert leaves accumulator and timer as
\* they were; the accumulator changes in no other way than by being set to
\* 0 by the reset timer, which fires only when 180 ms have passed since the
\* last insert handled with blips on and reducedEffects off.
C18_AccumulatorSteps ==
    [][/\ (InsertStep /\ settings.blips /\ ~settings.reducedEffects) =>
              /\ pitchIncrease' = pitchIncrease + 1
              /\ pitchTimers' = {[left |-> PITCH_RESET_MS, cur |-> TRUE]}
       /\ (InsertStep /\ ~(settings.blips /\ ~settings.reducedEffects)) =>
              /\ pitchIncrease' = pitchIncrease
              /\ pitchTimers' = pitchTimers
       /\ (~InsertStep /\ pitchIncrease' # pitchIncrease) =>
              /\ pitchIncrease' = 0
              /\ tobs.gap >= PITCH_RESET_MS
              /\ \E t \in pitchTimers : t.left = 0 /\ pitchTimers' = pitchTimers \ {t}]_vars

\* a second insert with blips on has re-armed the timer that was running
C18_Witness ==
    /\ tobs.kind = "insert" /\ settings.blips /\ ~settings.reducedEffects
    /\ pitchIncrease = 2 /\ pitchTimers = {[left |-> PITCH_RESET_MS, cur |-> TRUE]}

----------------------------------------------------------------------------
(* Claims about the timers *)

\* C21: at every moment at most one timer is pending per concern: at most one
\* combo decay timeout, at most one pitch reset timeout, at most one
\* count-animation timeout and at most one countdown-bar interval, whatever
\* the order of text changes, visible-range changes and timer callbacks
C21_OnePendingTimerPerConcern ==
    /\ Cardinality(decayTimers) <= 1
    /\ Cardinality(pitchTimers) <= 1
    /\ Cardinality(comboMeter.pendingAnimation) <= 1
    /\ Cardinality(comboMeter.pendingInterval) <= 1

\* all four timers are pending at once, each of them re-armed at least once:
\* power mode is past its first event and a second character was typed
C21_Witness ==
    /\ decayTimers # {}
    /\ pitchTimers # {}
    /\ comboMeter.pendingAnimation # {}
    /\ comboMeter.pendingInterval # {}
    /\ currentCombo > POWERMODE_THRESHOLD
    /\ pitchIncrease >= 2

\* C22: the most recent qualifying event wins a timer race: every pending
\* decay timeout is the one armed by the latest qualifying event and comes
\* due a full comboTimeout after it, so a timeout armed by an earlier event
\* never runs once a later event was handled, and the combo is reset only by
\* the timeout of the latest event
C22_LatestEventWinsRace ==
    /\ [](\A t \in decayTimers : t.cur /\ t.rem = COMBO_TIMEOUT - obs.gap)
    /\ [][ComboStopStep =>
            /\ decayTimers = {[rem |-> 0, cur |-> TRUE]}
            /\ decayTimers' = {}
            /\ obs.gap = COMBO_TIMEOUT]_vars

\* the race: the timeout of a running combo had come due, a text change was
\* handled before its callback could run, and the only pending timeout is the
\* new one
C22_Witness ==
    /\ obs.gap = 0 /\ obs.streak = 1 /\ ~obs.fromZero
    /\ currentCombo >= 2
    /\ decayTimers = {[rem |-> COMBO_TIMEOUT, cur |-> TRUE]}
----------------------------------------------------------------------------
(* Claims about the classification of text changes *)

\* the kind the notification has by its first content change
KindOfFirst(contentChanges) ==
    IF contentChanges = << >> THEN "none"
    ELSE IF contentChanges[1].text # << >> THEN "insert"
    ELSE IF contentChanges[1].rangeLength > 0 THEN "delete"
    ELSE "none"

\* C23: a text-change notification is classified by its first content change
\* only: it is an insert (1 XP) when that change's text is non-empty, whether or
\* not characters were removed too, a delete (no XP, an explosion when
\* explosions are on) when the text is empty and the removed length is
\* positive, and none otherwise; a none notification, one for another
\* document than the active editor's, and one without content changes change
\* no XP and emit no intent
C23_ClassifiedByFirstChange ==
    [][\A editor \in {"file1", NoEditor}, sameDoc \in BOOLEAN,
          contentChanges \in ContentChanges :
          TextDocumentChangeEvent(editor, sameDoc, contentChanges, 0) =>
             LET kind == IF editor = NoEditor \/ ~sameDoc THEN "none"
                         ELSE KindOfFirst(contentChanges)
             IN  /\ kind = "insert" => xp' = xp + 1
                 /\ kind = "delete" =>
                       /\ UNCHANGED <<xp, level, xpNextAbs, globalState>>
                       /\ Posts(out', "boom") <=> BoomsOn(settings)
                       /\ Shows(out', "boom") <=> BoomsOn(settings)
                       /\ ~Posts(out', "blip") /\ ~Shows(out', "blip")
                 /\ kind = "none" =>
                       /\ UNCHANGED <<xp, level, xpNextAbs, globalState>>
                       /\ out'.posted = << >> /\ out'.shown = << >>]_vars

\* with every effect on and no insert handled yet, a notification for the
\* active editor's document whose first change neither inserts nor removes
\* anything was handled: nothing was sent, the xp is as stored
C23_Witness ==
    /\ tobs.kind = "none" /\ tobs.editor = "file1" /\ out.handler = "textChange"
    /\ lastLineByEditor["file1"] = 0
    /\ tobs.insertsLeft = MaxInserts
    /\ settings = DefaultSettings
    /\ out.posted = << >> /\ out.shown = << >> /\ xp = 99
----------------------------------------------------------------------------
(* Claims about the events the combo tracker receives *)

\* C24: every text change (in insert mode or in normal mode) reported while a
\* writable editor is active reaches the combo tracker and adds exactly 1 to
\* the count, whatever the xp and the effect toggles are, and leaves those as
\* they were; a ModeChanged notification, and a notification that meets no
\* active editor, leave the count, power mode and the pending decay timeout
\* unchanged
C24_EditAddsOneToCombo ==
    [][\A event \in AutocmdEvents, editor \in {"file1", "output1", NoEditor} :
          Autocmd(event, editor, 0) =>
             IF event # "ModeChanged" /\ editor # NoEditor /\ ~isReadOnlyEditor(editor)
             THEN /\ currentCombo' = currentCombo + 1
                  /\ UNCHANGED <<xpVars, settings>>
             ELSE UNCHANGED <<currentCombo, isPowermodeActive, decayTimers,
                              comboTimeoutHandle>>]_vars

\* with every effect off and the xp one short of a level, a text change just
\* brought the count to the threshold
C24_Witness ==
    /\ settings = QuietSettings /\ xp = 99
    /\ currentCombo = POWERMODE_THRESHOLD /\ obs.gap = 0
    /\ decayTimers = {[rem |-> COMBO_TIMEOUT, cur |-> TRUE]}
----------------------------------------------------------------------------
(* Claims about the newline effect *)

\* C25 (as claimed): a text change whose inserted text contains a line
\* separator, handled with blips on, emits a newline effect
C25_AsClaimed ==
    [][\A editor \in TrackerEditors, change \in Changes \ {NoChange} :
          TextDocumentChanged(editor, TRUE, change, 0)
             /\ IncludesNewline(change.text) /\ settings.blips
          => Shows(out', "newline")]_vars

\* C25: a text change whose inserted text contains a line separator emits a
\* newline effect exactly when blips is on and reducedEffects is off; the
\* effect comes once, after and in addition to the blip effect of the same
\* insert; a text change without a line separator emits none
C25_NewlineEffect ==
    [][\A editor \in TrackerEditors, change \in Changes \ {NoChange} :
          TextDocumentChanged(editor, TRUE, change, 0) =>
             IF IncludesNewline(change.text) /\ settings.blips /\ ~settings.reducedEffects
             THEN /\ out'.shown = <<ShowBlip(editor, settings, charLabel(change, settings)),
                                    ShowNewline(editor, settings)>>
                  /\ Posts(out', "blip")
             ELSE ~Shows(out', "newline")]_vars

\* a line break was typed with blips on and reducedEffects off: the blip (with
\* the empty label of a line break) and the newline effect were both shown
C25_Witness ==
    /\ tobs.kind = "insert" /\ settings.blips /\ ~settings.reducedEffects /\ settings.chars
    /\ Len(out.shown) = 2
    /\ out.shown[1].effect = "blip" /\ out.shown[1].label = ""
    /\ out.shown[2].effect = "newline"
----------------------------------------------------------------------------
(* Claims about the progress and the storage of the leveling state *)

\* a call of addXp, reset or setBaseXp, and a write settling
XpCallStep ==
    \/ \E n \in PersistAmounts : AddXp(n)
    \/ Reset
    \/ \E b \in PersistBases : SetBaseXp(b)

WriteSettles == \E k \in StateKeys : WriteCompletes(k) \/ WriteFails(k)

\* C26: progress() returns current = xp - s and max = target - s, s being the
\* xp at the most recent level-up (0 before any level-up and after reset):
\* it starts as (xp, target), an addXp that levels up makes it (0, target - xp)
\* within the same call, any other addXp(n) adds n to current, reset makes it
\* (0, target), setBaseXp moves only max along with the target, and a write
\* that is on its way, completes or fails does not change it
C26_ProgressFromLevelStart ==
    /\ progress(Service) = [current |-> xp, max |-> xpNextAbs]
    /\ [](progress(Service) = [current |-> xp - xpStartOfLevel(globalState),
                               max     |-> xpNextAbs - xpStartOfLevel(globalState)])
    /\ [][/\ \A n \in PersistAmounts :
                AddXp(n) =>
                   progress(Service)' =
                      IF level' = level + 1
                      THEN [current |-> 0, max |-> xpNextAbs' - xp']
                      ELSE [current |-> progress(Service).current + n,
                            max     |-> progress(Service).max]
          /\ Reset => progress(Service)' = [current |-> 0, max |-> xpNextAbs']
          /\ (\E b \in PersistBases : SetBaseXp(b)) =>
                progress(Service)' =
                   [current |-> progress(Service).current,
                    max     |-> progress(Service).max + xpNextAbs' - xpNextAbs]
          /\ WriteSettles => progress(Service)' = progress(Service)]_vars

\* the level-up at xp 60 was followed by the failure of the write of
\* xpLevelStart: the progress still counts from 60
C26_Witness ==
    /\ xp = 60 /\ level = 2 /\ xpObs.lastOp = "addXp" /\ baseXp = 15
    /\ writes["xpLevelStart"].state = "failed" /\ storage["xpLevelStart"] = Unset
    /\ progress(Service) = [current |-> 0, max |-> 30]

\* C27: every call of addXp, reset and setBaseXp issues writes of the xp, the
\* level and the target it leaves in memory; a write that completes or fails
\* changes nothing in memory, calls stay possible while writes are on their
\* way or have failed, and a key whose latest write has completed holds in
\* the storage the value that is in memory
C27_WritesFollowMemory ==
    /\ [][XpCallStep =>
            /\ globalState'["xp"] = xp'
            /\ globalState'["level"] = level'
            /\ globalState'["xpNextAbs"] = xpNextAbs'
            /\ \A k \in PersistKeys :
                  writes'[k] = [state |-> "pending", value |-> globalState'[k]]]_vars
    /\ [][WriteSettles => UNCHANGED <<baseXp, xp, level, xpNextAbs, globalState>>]_vars
    /\ [](ENABLED Reset /\ \A b \in PersistBases : ENABLED SetBaseXp(b))
    /\ [](\A k \in PersistKeys : writes[k].state = "stored" => storage[k] = globalState[k])

\* after a level-up whose write of xpLevelStart failed, the writes of a later
\* call have completed: the storage holds the xp, level and target that are
\* in memory
C27_Witness ==
    /\ xp = 60 /\ level = 2 /\ xpObs.lastOp = "setBaseXp"
    /\ \A k \in PersistKeys : writes[k].state = "stored" /\ storage[k] = globalState[k]
    /\ storage["xpLevelStart"] = Unset /\ writes["xpLevelStart"].state = "failed"

\* every write issued so far has completed
AllWritesCompleted == \A k \in StateKeys : writes[k].state = "stored"

\* C28: after calls of addXp, reset and setBaseXp whose writes have all
\* completed, a restart that constructs the service with the same base on the
\* stored keys gives the xp, level, target and level start it had before
C28_SurvivesRestart ==
    [][\A b \in PersistBases :
          Restart(b) /\ b = baseXp /\ AllWritesCompleted =>
             /\ xp' = xp /\ level' = level /\ xpNextAbs' = xpNextAbs
             /\ xpStartOfLevel(globalState') = xpStartOfLevel(globalState)
             /\ globalState' = globalState]_vars

\* the service was just constructed again with the same base on the keys
\* stored after a level-up, every write having completed
C28_Witness ==
    /\ xpObs.lastOp = "new" /\ xpObs.arg = 15 /\ AllWritesCompleted
    /\ xp = 60 /\ level = 2 /\ xpNextAbs = 90 /\ xpStartOfLevel(globalState) = 60
    /\ storage = globalState /\ storage["xpLevelStart"] = 60
----------------------------------------------------------------------------
(* Claims about the level-up increment *)

Abs(i) == IF i < 0 THEN -i ELSE i

\* a / 10 rounded to the nearest integer, a half being rounded away from zero
RoundHalfAwayTenth(a) ==
    CHOOSE k \in (a \div 10 - 1)..(a \div 10 + 1) :
        \/ Abs(10 * k - a) < 5
        \/ Abs(10 * k - a) = 5 /\ Abs(10 * k) > Abs(a)

----------------------------------------------------------------------------
(* Claims about the sound variants *)

\* (pitch - 1.0) / 0.05 rounded to the nearest integer, for a pitch in hundredths
NearestFifth(pitch) ==
    CHOOSE k \in ((pitch - 100) \div 5)..((pitch - 100) \div 5 + 1) :
        2 * Abs(5 * k - (pitch - 100)) < 5

Clamp(i, lo, hi) == IF i < lo THEN lo ELSE IF i > hi THEN hi ELSE i

\* the sound file of variant i: the base sound for 0, blip_p01 .. blip_p20
BlipVariant(i) ==
    IF i = 0 THEN SoundKey("blip", << >>) ELSE SoundKey("blip", <<i \div 10, i % 10>>)

\* C30: the enabled player plays for a blip the variant of index
\* round((pitch - 1.0) / 0.05) clamped to 0..20 (0: the base blip sound,
\* i: blip_p<i>), and for any other sound its base sound whatever the pitch;
\* the pitch the edit handler gives the acc-th insert of a run selects
\* variant min(20, acc), one of the files the player knows
C30_SoundVariant ==
    (out.handler = "play" /\ out.shown[1].enabled) =>
        LET call == out.shown[1]
        IN  /\ call.file =
                  IF call.soundName = "blip"
                  THEN BlipVariant(Clamp(NearestFifth(call.pitch), 0, 20))
                  ELSE SoundKey(call.soundName, << >>)
            /\ \A acc \in 1..MaxBurst :
                  (call.soundName = "blip" /\ call.pitch = Pitch(acc)) =>
                     /\ call.file = BlipVariant(Min(20, acc))
                     /\ call.file \in soundPaths

\* a blip was played at pitch 1.03, between two variants: the nearer one,
\* blip_p01, was chosen
C30_Witness ==
    /\ out.handler = "play" /\ Len(out.shown) = 1
    /\ out.shown[1].soundName = "blip" /\ out.shown[1].pitch = 103
    /\ out.shown[1].enabled
    /\ out.shown[1].file = SoundKey("blip", <<0, 1>>)
----------------------------------------------------------------------------
(* Claims about reduced effects *)

\* the step handles a text-change notification
TextChangeStep == out'.handler = "textChange"

\* C31: while reducedEffects is on, a text-change notification posts no blip,
\* boom or fireworks, shows no blip, boom or newline effect and leaves the
\* pitch accumulator and its timer as they were; an insert still raises xp by
\* exactly 1 and posts the state of the service after it.
C31_ReducedEffects ==
    [][(TextChangeStep /\ settings.reducedEffects) =>
        /\ ~Posts(out', "blip") /\ ~Posts(out', "boom") /\ ~Posts(out', "fireworks")
        /\ ~Shows(out', "blip") /\ ~Shows(out', "boom") /\ ~Shows(out', "newline")
        /\ pitchIncrease' = pitchIncrease
        /\ pitchResetTimer' = pitchResetTimer
        /\ pitchTimers' = pitchTimers
        /\ InsertStep =>
              /\ xp' = xp + 1
              /\ out'.posted = <<StateMessage(Service')>>]_vars

\* an insert that levels up was handled under reduced effects, every toggle
\* being on: only the state went out
C31_Witness ==
    /\ tobs.kind = "insert" /\ settings.reducedEffects
    /\ settings.blips /\ settings.explosions /\ settings.fireworks /\ settings.sound
    /\ xp = 100 /\ level = 2 /\ xpObs.leveledUp
    /\ Len(out.posted) = 1 /\ out.posted[1].type = "state" /\ out.posted[1].xp = 100
    /\ out.shown = << >>
    /\ pitchIncrease = 0 /\ pitchTimers = {}
----------------------------------------------------------------------------
(* Claims about the state shown by the panel and the status bar *)

\* the state message that carries the values the service has after the step
CurrentState ==
    [ type |-> "state", xp |-> xp', level |-> level', xpNext |-> xpNextAbs',
      xpLevelStart |-> Get(globalState', "xpLevelStart", 0) ]

\* the status text made of the values the service has after the step
CurrentStatus ==
    /\ status'.level = level'
    /\ status'.current = xp' - Get(globalState', "xpLevelStart", 0)
    /\ status'.max = xpNextAbs' - Get(globalState', "xpLevelStart", 0)

\* the step handles an insert, the resetXp command or a change of the
\* extension's configuration
StateChangingStep ==
    \/ InsertStep
    \/ out'.handler = "resetXp"
    \/ out'.handler = "configChange" /\ out'.posted # << >>

\* every state message the step posts carries the values the service has
\* after the step
PostsCurrentState ==
    \A i \in 1..Len(out'.posted) :
        out'.posted[i].type = "state" => out'.posted[i] = CurrentState

----------------------------------------------------------------------------
(* Claims about the replies of the panel provider *)

\* C33 (as claimed): the state the panel provider sends in reply to ready and
\* requestState is the state the service has in memory: xp, level, target and
\* start of level.
C33_AsClaimed ==
    out.handler \in {"ready", "requestState"} =>
        out.posted[1].state =
            [ xp |-> xp, level |-> level, xpNext |-> xpNextAbs,
              xpLevelStart |-> xpStartOfLevel(globalState) ]
----------------------------------------------------------------------------
(* Claims about the settings snapshot and the toggle commands *)

\* C34: the settings snapshot changes only in the handler of configuration
\* changes; a toggle command leaves it as it is and asks for one update of
\* the configuration, which gives its key the negation of the value the
\* snapshot has.
C34_SnapshotFrame ==
    [][/\ settings' # settings => out'.handler = "configChange"
       /\ out'.handler = "toggle" =>
             /\ settings' = settings
             /\ \E key \in ToggleKeys :
                    configUpdates' =
                        Append(configUpdates, [key |-> key, value |-> ~settings[key]])]_vars

\* toggleBlips was invoked after an insert and a reset: the snapshot still
\* has blips on, and the update to off is on its way
C34_Witness ==
    /\ out.handler = "toggle"
    /\ settings = DefaultSettings
    /\ configUpdates = <<[key |-> "blips", value |-> FALSE]>>
    /\ tobs.insertsLeft = 0 /\ xpObs.lastOp = "reset"

\* the toggles whose value differs from the one at activation
Toggled == {key \in ToggleKeys : settings[key] # DefaultSettings[key]}

\* C35 (as claimed): once two toggle commands have been invoked and their
\* updates applied, a key toggled twice has the value it had before: either
\* no key differs from its value at activation (one command invoked twice) or
\* two keys do (two commands invoked once each).
C35_AsClaimed ==
    (tobs.changesLeft = 0 /\ configUpdates = << >>) => Cardinality(Toggled) # 1
----------------------------------------------------------------------------
(* Claims about the level *)

\* C36: the level is at least 1 in every reachable state, no call but
\* reset() lowers it, and a call of addXp raises it by at most 1, whatever
\* the amount.
C36_LevelSteps ==
    /\ [](level >= 1)
    /\ [][level' < level => xpObs'.lastOp = "reset"]_vars
    /\ [][xpObs'.lastOp = "addXp" => level' \in {level, level + 1}]_vars

\* under base 1 the target of level 1 is 2 and the increment of level 2 is 0:
\* addXp(7) at xp 0 passes the target by 5 and gains one level
C36_Witness ==
    /\ xpObs.lastOp = "addXp" /\ xpObs.arg = 7 /\ xpObs.leveledUp
    /\ baseXp = 1 /\ xp = 7 /\ level = 2
----------------------------------------------------------------------------
(* Claims about a change of configuration that keeps the base *)

\* the step calls setBaseXp with the base the service has
SameBaseStep == xpObs'.lastOp = "setBaseXp" /\ xpObs'.arg = baseXp

\* C37 (as claimed): setBaseXp called with the base the service has changes
\* none of xp, level, xpLevelStart and the target.
C37_AsClaimed ==
    [][SameBaseStep =>
        /\ xp' = xp /\ level' = level /\ xpNextAbs' = xpNextAbs
        /\ xpStartOfLevel(globalState') = xpStartOfLevel(globalState)]_vars

\* C37 (amended): setBaseXp called with the base the service has changes
\* none of xp, level and xpLevelStart; it leaves the target as it is unless
\* the service is at level 1 with xp 0, where the target becomes 2 * baseXp,
\* or xp is at or above the target, where the target becomes
\* xp + round(baseXp * level / 10) * 10; and setBaseXp(b) called twice gives
\* the state that one call gives.
C37_SameBaseNoOp ==
    /\ [][SameBaseStep =>
            /\ xp' = xp /\ level' = level
            /\ xpStartOfLevel(globalState') = xpStartOfLevel(globalState)
            /\ xpNextAbs' = IF level = 1 /\ xp = 0 THEN 2 * baseXp
                            ELSE IF xp >= xpNextAbs
                            THEN xp + NearestTenth(baseXp * level) * 10
                            ELSE xpNextAbs]_vars
    /\ [](\A b \in BaseXps : setBaseXp(setBaseXp(Service, b), b) = setBaseXp(Service, b))

\* setBaseXp(50) in the middle of level 2 of base 50: nothing changed
C37_Witness ==
    /\ xpObs.lastOp = "setBaseXp" /\ xpObs.arg = 50 /\ baseXp = 50
    /\ xp = 107 /\ level = 2 /\ xpNextAbs = 200
    /\ xpStartOfLevel(globalState) = 100
----------------------------------------------------------------------------
(* Claims about the resetXp command *)

\* C38 (as claimed): the state message of the resetXp command carries the
\* state after the reset (xp 0, level 1, start of level 0); the command posts
\* fireworks only when fireworks is on and reducedEffects is off; while
\* reducedEffects is on no step posts fireworks or a boom.
C38_AsClaimed ==
    [][/\ out'.handler = "resetXp" =>
             /\ out'.posted[1] =
                    [ type |-> "state", xp |-> 0, level |-> 1, xpNext |-> 2 * baseXp,
                      xpLevelStart |-> 0 ]
             /\ Posts(out', "fireworks") => (settings.fireworks /\ ~settings.reducedEffects)
       /\ settings.reducedEffects =>
             ~Posts(out', "fireworks") /\ ~Posts(out', "boom")]_vars
----------------------------------------------------------------------------
(* Claims about connecting to Neovim *)

\* the call has returned a client or thrown its error
Settled == connecting.pc \in {"returned", "failed"}

\* no attempt but the last has yielded a client
NoClientBeforeLast ==
    \A k \in 1..(Len(connecting.outcomes) - 1) : connecting.outcomes[k] # "client"

\* C39: getExistingNeovimClient() always settles; it makes at most 10
\* attempts; it returns exactly when the attempt just made yielded a client,
\* which is the first that did, and makes no attempt afterwards; it awaits the
\* delay once between two attempts and never after the 10th (an attempt
\* being awaited, every attempt made was followed by a delay; otherwise every
\* attempt but the last); it fails exactly when 10 attempts have been made
\* and each yielded nothing or threw.
C39_ConnectTerminates ==
    /\ <>Settled
    /\ [](/\ Len(connecting.outcomes) <= maxRetries
          /\ NoClientBeforeLast
          /\ connecting.pc = "returned" <=>
                 (connecting.outcomes # << >>
                  /\ connecting.outcomes[Len(connecting.outcomes)] = "client")
          /\ connecting.pc = "failed" <=>
                 (Len(connecting.outcomes) = maxRetries
                  /\ \A k \in 1..maxRetries : connecting.outcomes[k] \in {"none", "threw"})
          /\ connecting.pc = "attempt" =>
                 connecting.waited = retryDelay * Len(connecting.outcomes)
          /\ connecting.pc # "attempt" =>
                 connecting.waited = retryDelay * (Len(connecting.outcomes) - 1))
    /\ [][Settled => connecting' = connecting]_vars

\* the tenth attempt threw after nine that yielded nothing: the call failed
\* after nine delays
C39_Witness ==
    /\ connecting.pc = "failed" /\ connecting.i = maxRetries
    /\ Len(connecting.outcomes) = maxRetries /\ connecting.outcomes[maxRetries] = "threw"
    /\ connecting.outcomes[1] = "none"
    /\ connecting.waited = retryDelay * (maxRetries - 1)
====
